---- MODULE Spec2Model ----
(***************************************************************************)
(* A model of the Stella chess engine: the position representation with    *)
(* do_move / undo_move and incremental Zobrist hashing, the legal and      *)
(* staged move generators, is_legal / is_pseudolegal, the NNUE accumulator *)
(* bookkeeping, the transposition table, the history counters and the      *)
(* thread hand-shake of Search::search.                                    *)
(*                                                                         *)
(* Bitboards are sets of squares (bit i set <=> i in the set), a Zobrist   *)
(* key is the set of table entries XOR-ed into it (XOR is symmetric        *)
(* difference, an entry that was never initialised is the empty set), and  *)
(* a move is the 16-bit integer the engine packs it into.                  *)
(***************************************************************************)
EXTENDS Integers, FiniteSets, Sequences, TLC

VARIABLES pos, moves, gen, ev, table, history, srch

vars == <<pos, moves, gen, ev, table, history, srch>>

(***************************************************************************)
(* types.hpp                                                               *)
(***************************************************************************)
WHITE == 0
BLACK == 1
Colors == {WHITE, BLACK}

NO_PIECE_TYPE == 0
PAWN == 1
KNIGHT == 2
BISHOP == 3
ROOK == 4
QUEEN == 5
KING == 6
PieceTypes == PAWN..KING

NO_PIECE == 0
W_PAWN == 1
W_KNIGHT == 2
W_ROOK == 4
W_KING == 6
B_PAWN == 9
B_KNIGHT == 10
B_BISHOP == 11
B_ROOK == 12
B_KING == 14
Pieces == (W_PAWN..W_KING) \cup (B_PAWN..B_KING)

NORTH == 8
EAST == 1
SOUTH == -NORTH
WEST == -EAST
NORTH_EAST == NORTH + EAST
NORTH_WEST == NORTH + WEST
SOUTH_EAST == SOUTH + EAST
SOUTH_WEST == SOUTH + WEST

SQ_NB == 64
SQ_NONE == 64
Squares == 0..(SQ_NB - 1)
A1 == 0
B1 == 1
C1 == 2
D1 == 3
E1 == 4
F1 == 5
G1 == 6
H1 == 7
D2 == 11
B4 == 25
A5 == 32
D5 == 35
E5 == 36
H5 == 39
B7 == 49
D7 == 51
A8 == 56
E8 == 60
H8 == 63

RANK_1 == 0
RANK_2 == 1
RANK_3 == 2
RANK_4 == 3
RANK_6 == 5
RANK_7 == 6
RANK_8 == 7

\* CastlingRights is a 4-bit mask; a mask is modelled as the set of its bits.
WHITE_KING == 1
WHITE_QUEEN == 2
BLACK_KING == 4
BLACK_QUEEN == 8
NO_CASTLE == {}
KING_SIDE == {WHITE_KING, BLACK_KING}
QUEEN_SIDE == {WHITE_QUEEN, BLACK_QUEEN}
WHITE_CASTLE == {WHITE_KING, WHITE_QUEEN}
BLACK_CASTLE == {BLACK_KING, BLACK_QUEEN}
ANY_CASTLE == WHITE_CASTLE \cup BLACK_CASTLE

\* MoveType tags, bits 14-15 of a move.
NORMAL == 0
PROMOTION == 16384
EN_PASSANT == 32768
CASTLING == 49152

Abs(v) == IF v < 0 THEN -v ELSE v
Max(v, w) == IF v > w THEN v ELSE w
Min(v, w) == IF v < w THEN v ELSE w

Not(c) == 1 - c
rank_of(s) == s \div 8
file_of(s) == s % 8
make_square(r, f) == r * 8 + f
relative_rank(c, r) == IF c = WHITE THEN r ELSE 7 - r
relative_square(c, s) == IF c = WHITE THEN s ELSE make_square(7 - rank_of(s), file_of(s))
pawn_push(c) == IF c = WHITE THEN NORTH ELSE SOUTH
is_ok(s) == s >= A1 /\ s < SQ_NB
piece_type(pc) == pc % 8
piece_color(pc) == pc \div 8
make_piece(c, pt) == c * 8 + pt
ColorRights(c, rights) == (IF c = WHITE THEN WHITE_CASTLE ELSE BLACK_CASTLE) \cap rights

\* piece_value(pt).mid, the field Value += PhaseScore adds.
piece_value(pc) ==
    CASE piece_type(pc) = PAWN -> 125
      [] piece_type(pc) = KNIGHT -> 780
      [] piece_type(pc) = BISHOP -> 825
      [] piece_type(pc) = ROOK -> 1275
      [] piece_type(pc) = QUEEN -> 2540
      [] OTHER -> 0

\* class Move: the packed 16-bit value and its accessors.
MoveNone == 0
MakeMove(from, to, type, pt) == type + (pt - KNIGHT) * 4096 + from + to * 64
NormalMove(from, to) == from + to * 64
move_from(m) == m % 64
move_to(m) == (m \div 64) % 64
move_type(m) == (m \div 16384) * 16384
move_promotion(m) == ((m \div 4096) % 4) + KNIGHT
move_is_ok(m) == move_from(m) # move_to(m)

(***************************************************************************)
(* bitboard.hpp / bitboard.cpp: the tables Bitboards::init() builds.       *)
(***************************************************************************)
rank_distance(s1, s2) == Abs(rank_of(s1) - rank_of(s2))
file_distance(s1, s2) == Abs(file_of(s1) - file_of(s2))
distance(s1, s2) == Max(rank_distance(s1, s2), file_distance(s1, s2))

KingDirections == {-9, -8, -7, -1, 1, 7, 8, 9}
KnightDirections == {-17, -15, -10, -6, 6, 10, 15, 17}
RookDirections == {NORTH, SOUTH, EAST, WEST}
BishopDirections == {NORTH_EAST, NORTH_WEST, SOUTH_EAST, SOUTH_WEST}

SafeDirectionTable ==
    [s \in Squares |->
        [d \in KingDirections \cup KnightDirections |->
            IF is_ok(s + d) /\ distance(s, s + d) <= 2 THEN {s + d} ELSE {}] @@ <<>>] @@ <<>>

safe_direction(s, d) == SafeDirectionTable[s][d]

RECURSIVE SlideRay(_, _, _)
SlideRay(sq, d, occupied) ==
    IF safe_direction(sq, d) = {} THEN {}
    ELSE {sq + d} \cup (IF (sq + d) \in occupied THEN {} ELSE SlideRay(sq + d, d, occupied))

sliding_attack(pt, s, occupied) ==
    UNION {SlideRay(s, d, occupied) :
             d \in (IF pt = ROOK THEN RookDirections ELSE BishopDirections)}

\* shift(b, d) for the pawn-attack directions: the file guard, then the shift
\* (bits shifted past square 63 or below square 0 are lost).
shift(b, d) ==
    LET guarded == IF d \in {EAST, NORTH_EAST, SOUTH_EAST} THEN {s \in b : file_of(s) # 7}
                   ELSE IF d \in {WEST, NORTH_WEST, SOUTH_WEST} THEN {s \in b : file_of(s) # 0}
                   ELSE b
    IN {s + d : s \in {t \in guarded : is_ok(t + d)}}

pawn_attacks_bb(c, b) ==
    IF c = WHITE THEN shift(b, NORTH_WEST) \cup shift(b, NORTH_EAST)
    ELSE shift(b, SOUTH_WEST) \cup shift(b, SOUTH_EAST)

PawnAttacks == [c \in Colors |-> [s \in Squares |-> pawn_attacks_bb(c, {s})] @@ <<>>] @@ <<>>

PseudoAttacks ==
    [pt \in NO_PIECE_TYPE..KING |->
        [s \in Squares |->
            CASE pt \in {NO_PIECE_TYPE, PAWN} -> {}
              [] pt = KING -> UNION {safe_direction(s, d) : d \in KingDirections}
              [] pt = KNIGHT -> UNION {safe_direction(s, d) : d \in KnightDirections}
              [] pt = BISHOP -> sliding_attack(BISHOP, s, {})
              [] pt = ROOK -> sliding_attack(ROOK, s, {})
              [] pt = QUEEN -> sliding_attack(BISHOP, s, {}) \cup sliding_attack(ROOK, s, {})] @@ <<>>] @@ <<>>

\* attacks_bb(s, pt, occupied): the magic lookup returns the reference
\* sliding_attack the table was filled with.
attacks_bb(s, pt, occupied) ==
    CASE pt = BISHOP -> sliding_attack(BISHOP, s, occupied)
      [] pt = ROOK -> sliding_attack(ROOK, s, occupied)
      [] pt = QUEEN -> sliding_attack(ROOK, s, occupied) \cup sliding_attack(BISHOP, s, occupied)
      [] OTHER -> PseudoAttacks[pt][s]

\* attacks_bb(s, pt): the attacks on an empty board.
attacks_bb_empty(s, pt) == PseudoAttacks[pt][s]

pawn_attacks(c, s) == PawnAttacks[c][s]

SliderOf(s1, s2) ==
    IF s2 \in PseudoAttacks[BISHOP][s1] THEN BISHOP
    ELSE IF s2 \in PseudoAttacks[ROOK][s1] THEN ROOK ELSE NO_PIECE_TYPE

LineBB ==
    [s1 \in Squares |->
        [s2 \in Squares |->
            IF SliderOf(s1, s2) = NO_PIECE_TYPE THEN {}
            ELSE (PseudoAttacks[SliderOf(s1, s2)][s1] \cap PseudoAttacks[SliderOf(s1, s2)][s2])
                 \cup {s1, s2}] @@ <<>>] @@ <<>>

BetweenBB ==
    [s1 \in Squares |->
        [s2 \in Squares |->
            (IF SliderOf(s1, s2) = NO_PIECE_TYPE THEN {}
             ELSE sliding_attack(SliderOf(s1, s2), s1, {s2})
                  \cap sliding_attack(SliderOf(s1, s2), s2, {s1}))
            \cup {s2}] @@ <<>>] @@ <<>>

line_bb(s1, s2) == LineBB[s1][s2]
between_bb(s1, s2) == BetweenBB[s1][s2]
lies_along(s1, s2, s3) == s3 \in line_bb(s1, s2)

\* lsb(b): the lowest set bit.
lsb(b) == CHOOSE s \in b : \A t \in b : s <= t
popcount(b) == Cardinality(b)
Xor(a, b) == (a \ b) \cup (b \ a)

(***************************************************************************)
(* position.hpp / position.cpp: Zobrist keys, PositionInfo, Position.      *)
(***************************************************************************)
\* Zobrist::pieces[pc][s]: Position::init() writes the twelve real pieces;
\* the rows of NO_PIECE and of the unused piece codes stay zero.
ZobristPieces(pc, s) == IF pc \in Pieces THEN {pc * 64 + s} ELSE {}
ZobristEnpassant(f) == {1024 + f}
ZobristCastling(rights) ==
    {1040 + (IF WHITE_KING \in rights THEN WHITE_KING ELSE 0)
          + (IF WHITE_QUEEN \in rights THEN WHITE_QUEEN ELSE 0)
          + (IF BLACK_KING \in rights THEN BLACK_KING ELSE 0)
          + (IF BLACK_QUEEN \in rights THEN BLACK_QUEEN ELSE 0)}
ZobristSide == {1056}

\* PositionInfo{}: the member initialisers of the struct.
EmptyInfo ==
    [key |-> {}, castlingRights |-> NO_CASTLE, fiftyRule |-> 0, pliesFromNull |-> 0,
     repetition |-> FALSE, capturedPiece |-> NO_PIECE, epSquare |-> SQ_NONE,
     checks |-> {}, blockers |-> {}, pinners |-> {},
     nonPawnMaterial |-> [c \in Colors |-> 0],
     checkSquares |-> [pt \in NO_PIECE_TYPE..KING |-> {}]]

current(p) == p.positionHistory[Len(p.positionHistory)]
SetCurrent(p, info) ==
    [p EXCEPT !.positionHistory = [@ EXCEPT ![Len(p.positionHistory)] = info]]

pieces_all(p) == p.occupiedBB
pieces_c(p, c) == p.occupiedSideBB[c]
pieces_pt(p, pt) == p.piecesBB[pt]
pieces_cpt(p, c, pt) == p.piecesBB[pt] \cap p.occupiedSideBB[c]
pieces_pc(p, pc) == p.piecesBB[piece_type(pc)] \cap p.occupiedSideBB[piece_color(pc)]
piece_on(p, s) == p.board[s]
is_empty(p, s) == p.board[s] = NO_PIECE
ksq(p, c) == lsb(pieces_cpt(p, c, KING))
ep_square(p) == current(p).epSquare
checks(p) == current(p).checks
blockers(p) == current(p).blockers
pinners(p) == current(p).pinners
key(p) == current(p).key
can_castle(p, rights) == rights \cap current(p).castlingRights # {}
castling_blocked(p, right) == pieces_all(p) \cap p.castlePath[right] # {}
castle_rook_square(p, right) == p.castleRookSquare[right]
is_capture(p, m) ==
    (~is_empty(p, move_to(m)) /\ move_type(m) # CASTLING) \/ move_type(m) = EN_PASSANT
is_promotion(m) == move_type(m) = PROMOTION

set_piece(p, pc, s) ==
    LET typeBB == p.piecesBB[piece_type(pc)] \cup {s}
    IN [p EXCEPT !.board[s] = pc,
                 !.piecesBB[piece_type(pc)] = typeBB,
                 !.occupiedBB = @ \cup typeBB,
                 !.occupiedSideBB[piece_color(pc)] = @ \cup {s}]

pop_piece(p, s) ==
    LET pc == p.board[s]
    IN [p EXCEPT !.occupiedBB = Xor(@, {s}),
                 !.occupiedSideBB[piece_color(pc)] = Xor(@, {s}),
                 !.piecesBB[piece_type(pc)] = Xor(@, {s}),
                 !.board[s] = NO_PIECE]

\* move_piece: board[from] is cleared first, then board[to] is written.
move_piece(p, from, to) ==
    LET pc == p.board[from]
        b == {from} \cup {to}
    IN [p EXCEPT !.occupiedBB = Xor(@, b),
                 !.occupiedSideBB[piece_color(pc)] = Xor(@, b),
                 !.piecesBB[piece_type(pc)] = Xor(@, b),
                 !.board = [[@ EXCEPT ![from] = NO_PIECE] EXCEPT ![to] = pc]]

change_side(p) == [p EXCEPT !.sideToMove = Not(@)]

\* Position::update(): checkers, pinners, blockers and check squares of the
\* side to move, written into the current PositionInfo.
update(p) ==
    LET us == p.sideToMove
        them == Not(us)
        ks == ksq(p, us)
        eks == ksq(p, them)
        lateralSliders == pieces_cpt(p, them, ROOK) \cup pieces_cpt(p, them, QUEEN)
        diagonalSliders == pieces_cpt(p, them, BISHOP) \cup pieces_cpt(p, them, QUEEN)
        sliderAttacks == (attacks_bb(ks, ROOK, pieces_c(p, them)) \cap lateralSliders)
                         \cup (attacks_bb(ks, BISHOP, pieces_c(p, them)) \cap diagonalSliders)
        between(s) == between_bb(ks, s) \cap pieces_c(p, us)
        checkers == (pawn_attacks(us, ks) \cap pieces_cpt(p, them, PAWN))
                    \cup (attacks_bb(ks, KNIGHT, {}) \cap pieces_cpt(p, them, KNIGHT))
                    \cup {s \in sliderAttacks : popcount(between(s)) = 0}
        pinning == {s \in sliderAttacks : popcount(between(s)) = 1}
        rookSquares == attacks_bb(eks, ROOK, p.occupiedBB)
        bishopSquares == attacks_bb(eks, BISHOP, p.occupiedBB)
    IN SetCurrent(p, [current(p) EXCEPT
           !.pinners = pinning,
           !.blockers = {lsb(between(s)) : s \in pinning},
           !.checks = checkers,
           !.checkSquares = [pt \in NO_PIECE_TYPE..KING |->
               CASE pt \in {NO_PIECE_TYPE, KING} -> {}
                 [] pt = PAWN -> pawn_attacks(them, eks)
                 [] pt = KNIGHT -> attacks_bb(eks, KNIGHT, {})
                 [] pt = BISHOP -> bishopSquares
                 [] pt = ROOK -> rookSquares
                 [] pt = QUEEN -> rookSquares \cup bishopSquares]])

\* Position::attackers(s, occupied): every piece of either colour attacking s.
attackers(p, s, occupied) ==
    (pawn_attacks(WHITE, s) \cap pieces_pc(p, B_PAWN))
    \cup (pawn_attacks(BLACK, s) \cap pieces_pc(p, W_PAWN))
    \cup (attacks_bb(s, KNIGHT, {}) \cap pieces_pt(p, KNIGHT))
    \cup (attacks_bb(s, BISHOP, occupied) \cap (pieces_pt(p, BISHOP) \cup pieces_pt(p, QUEEN)))
    \cup (attacks_bb(s, ROOK, occupied) \cap (pieces_pt(p, ROOK) \cup pieces_pt(p, QUEEN)))
    \cup (attacks_bb(s, KING, {}) \cap pieces_pt(p, KING))

\* Position::set_castling_rights(c, rookSquare).
set_castling_rights(p, c, rookSquare) ==
    LET kingFrom == ksq(p, c)
        rights == ColorRights(c, IF kingFrom < rookSquare THEN KING_SIDE ELSE QUEEN_SIDE)
        right == CHOOSE r \in rights : TRUE
        kingSide == rights \cap KING_SIDE # {}
        kingTo == relative_square(c, IF kingSide THEN G1 ELSE C1)
        rookTo == relative_square(c, IF kingSide THEN F1 ELSE D1)
    IN [SetCurrent(p, [current(p) EXCEPT !.castlingRights = @ \cup rights])
          EXCEPT !.castleMask[kingFrom] = @ \cup rights,
                 !.castleMask[rookSquare] = @ \cup rights,
                 !.castleRookSquare[right] = rookSquare,
                 !.castlePath[right] =
                     (between_bb(rookSquare, rookTo) \cup between_bb(kingFrom, kingTo))
                     \ ({kingFrom} \cup {rookSquare})]

\* The parsed fields of a FEN string: the piece placement (digits and slashes
\* are the empty squares), the side letter, the castling tokens, the two
\* characters of the en-passant field, and the two clocks.
FenOrder == [i \in 1..SQ_NB |-> make_square(7 - ((i - 1) \div 8), (i - 1) % 8)] @@ <<>>

EmptyPosition ==
    [board |-> [s \in Squares |-> NO_PIECE],
     piecesBB |-> [pt \in NO_PIECE_TYPE..KING |-> {}],
     occupiedSideBB |-> [c \in Colors |-> {}],
     occupiedBB |-> {},
     sideToMove |-> WHITE, moveCount |-> 0, isChess960 |-> FALSE,
     castleMask |-> [s \in Squares |-> NO_CASTLE],
     castleRookSquare |-> [r \in ANY_CASTLE |-> A1],
     castlePath |-> [r \in ANY_CASTLE |-> {}],
     positionHistory |-> <<EmptyInfo>>]

\* 1. the placement loop: key ^= Zobrist::pieces, set_piece, non-pawn material.
RECURSIVE PlaceFen(_, _, _)
PlaceFen(p, placement, i) ==
    IF i > SQ_NB THEN p
    ELSE LET s == FenOrder[i]
             pc == placement[s]
             cur == current(p)
             placed == set_piece(SetCurrent(p,
                 [cur EXCEPT !.key = Xor(@, ZobristPieces(pc, s)),
                             !.nonPawnMaterial[piece_color(pc)] =
                                 IF piece_type(pc) # PAWN /\ piece_type(pc) # KING
                                 THEN @ + piece_value(pc) ELSE @]), pc, s)
         IN PlaceFen(IF pc = NO_PIECE THEN p ELSE placed, placement, i + 1)

\* 3. the castling tokens: 'K' / 'Q' look for the outermost rook, a file
\* letter names the rook's file.
CastleTokenSquare(p, tok) ==
    LET rook == make_piece(tok.c, ROOK)
        rank == {s \in Squares : rank_of(s) = relative_rank(tok.c, RANK_1) /\ piece_on(p, s) = rook}
    IN CASE tok.k = "K" -> CHOOSE s \in rank : \A t \in rank : t <= s
         [] tok.k = "Q" -> CHOOSE s \in rank : \A t \in rank : s <= t
         [] OTHER -> make_square(relative_rank(tok.c, RANK_1), tok.f)

RECURSIVE CastleFen(_, _, _)
CastleFen(p, toks, i) ==
    IF i > Len(toks) THEN p
    ELSE CastleFen(set_castling_rights(p, toks[i].c, CastleTokenSquare(p, toks[i])), toks, i + 1)

\* Position::Position(fen, chess960).
Position(fen, chess960) ==
    LET placed == PlaceFen(EmptyPosition, fen.placement, 1)
        sided == SetCurrent([placed EXCEPT !.sideToMove = fen.side],
                            [current(placed) EXCEPT !.key = Xor(@, ZobristSide)])
        castled == CastleFen(sided, fen.castling, 1)
        epOk == /\ fen.epFile \in 0..7
                /\ fen.epRank \in RANK_1..RANK_8
                /\ fen.epRank = (IF fen.side = WHITE THEN RANK_6 ELSE RANK_3)
        cur == current(castled)
        info == [cur EXCEPT
                   !.key = Xor(Xor(@, ZobristCastling(cur.castlingRights)),
                               IF epOk THEN ZobristEnpassant(fen.epFile) ELSE {}),
                   !.epSquare = IF epOk THEN make_square(fen.epRank, fen.epFile) ELSE SQ_NONE,
                   !.fiftyRule = fen.fifty]
    IN update([SetCurrent(castled, info) EXCEPT
                  !.moveCount = Max(2 * (fen.fullmove - 1), 0)
                                + (IF fen.side = BLACK THEN 1 ELSE 0),
                  !.isChess960 = chess960])

\* Position::fen(): the fields the position writes out.
CastleTokens(p) ==
    LET tok(right, c, k) ==
            IF can_castle(p, {right})
            THEN <<[c |-> c, k |-> IF p.isChess960 THEN "F" ELSE k,
                    f |-> file_of(castle_rook_square(p, right))]>>
            ELSE <<>>
    IN tok(WHITE_KING, WHITE, "K") \o tok(WHITE_QUEEN, WHITE, "Q")
       \o tok(BLACK_KING, BLACK, "K") \o tok(BLACK_QUEEN, BLACK, "Q")

fen(p) ==
    [placement |-> p.board,
     side |-> p.sideToMove,
     castling |-> CastleTokens(p),
     epFile |-> IF ep_square(p) = SQ_NONE THEN -1 ELSE file_of(ep_square(p)),
     epRank |-> IF ep_square(p) = SQ_NONE THEN -1 ELSE rank_of(ep_square(p)),
     fifty |-> current(p).fiftyRule,
     fullmove |-> 1 + ((p.moveCount - (IF p.sideToMove = BLACK THEN 1 ELSE 0)) \div 2)]

\* The repetition scan at the end of do_move: for (idx = start; idx >= end;
\* idx += 2) over the 0-based positionHistory (its last entry is the current
\* one).  The loop is left at once when start < end; when it is entered, idx
\* only grows, so idx >= end stays true and the scan ends at the first equal
\* key, the current entry's own at the latest.
RepetitionScan(p, cur) ==
    LET size == Len(p.positionHistory)
        inc == Min(cur.fiftyRule, cur.pliesFromNull)
        end == size - 5
        start == size - 1 - inc
        keyAt(idx) == IF idx = size - 1 THEN cur.key ELSE p.positionHistory[idx + 1].key
    IN /\ inc >= 4
       \* size_t arithmetic: a negative difference wraps to a huge index
       /\ end >= 0 /\ start >= 0
       /\ start >= end
       /\ \E idx \in start..(size - 1) :
            /\ (idx - start) % 2 = 0
            /\ keyAt(idx) = cur.key

\* Position::do_move(m).
do_move(p, m) ==
    LET previous == current(p)
        from == move_from(m)
        to == move_to(m)
        pc == piece_on(p, from)
        us == p.sideToMove
        them == Not(us)
        type == move_type(m)
        \* castling: king and rook are lifted, then put down
        kingTo == IF to > from THEN relative_square(us, G1) ELSE relative_square(us, C1)
        rookTo == IF to > from THEN relative_square(us, F1) ELSE relative_square(us, D1)
        castledBoard == set_piece(set_piece(pop_piece(pop_piece(p, from), to),
                                            make_piece(us, KING), kingTo),
                                  make_piece(us, ROOK), rookTo)
        \* the rook's key terms are indexed by piece_on(to), read after the rook left
        rookKeyPiece == piece_on(castledBoard, to)
        castleKey == Xor(Xor(ZobristPieces(pc, from), ZobristPieces(pc, kingTo)),
                         Xor(ZobristPieces(rookKeyPiece, to), ZobristPieces(rookKeyPiece, rookTo)))
        castleRights == previous.castlingRights \ (p.castleMask[from] \cup p.castleMask[kingTo])
        captured == IF type = CASTLING THEN NO_PIECE
                    ELSE IF type = EN_PASSANT THEN make_piece(them, PAWN) ELSE piece_on(p, to)
        captureSq == IF type = EN_PASSANT THEN to - pawn_push(us) ELSE to
        otherRights == IF type # CASTLING /\ previous.castlingRights # {}
                          /\ (p.castleMask[from] \cup p.castleMask[to]) # {}
                       THEN previous.castlingRights \ (p.castleMask[from] \cup p.castleMask[to])
                       ELSE IF type = CASTLING THEN castleRights ELSE previous.castlingRights
        doublePush == piece_type(pc) = PAWN /\ Abs(to - from) = NORTH + NORTH
        promotes == piece_type(pc) = PAWN /\ ~doublePush /\ type = PROMOTION
        promotion == make_piece(us, move_promotion(m))
        epNew == IF doublePush THEN to - pawn_push(us) ELSE SQ_NONE
        \* the pieces
        b1 == IF type = CASTLING THEN castledBoard ELSE p
        b2 == IF captured # NO_PIECE THEN pop_piece(b1, captureSq) ELSE b1
        b3 == IF type # CASTLING THEN move_piece(b2, from, to) ELSE b2
        b4 == IF promotes THEN set_piece(pop_piece(b3, to), promotion, to) ELSE b3
        \* the key
        k1 == IF type = CASTLING THEN Xor(previous.key, castleKey) ELSE previous.key
        k2 == Xor(Xor(k1, ZobristCastling(previous.castlingRights)), ZobristCastling(otherRights))
        k3 == IF captured # NO_PIECE THEN Xor(k2, ZobristPieces(captured, captureSq)) ELSE k2
        k4 == IF previous.epSquare # SQ_NONE
              THEN Xor(k3, ZobristEnpassant(file_of(previous.epSquare))) ELSE k3
        k5 == IF type # CASTLING
              THEN Xor(k4, Xor(ZobristPieces(pc, from), ZobristPieces(pc, to))) ELSE k4
        k6 == IF doublePush THEN Xor(k5, ZobristEnpassant(file_of(epNew)))
              ELSE IF promotes
                   THEN Xor(k5, Xor(ZobristPieces(pc, to), ZobristPieces(promotion, to)))
                   ELSE k5
        material == [c \in Colors |->
                        previous.nonPawnMaterial[c]
                        - (IF c = them /\ captured # NO_PIECE /\ piece_type(captured) # PAWN
                           THEN piece_value(captured) ELSE 0)
                        + (IF c = us /\ promotes THEN piece_value(promotion) ELSE 0)]
        info == [EmptyInfo EXCEPT
                    !.key = k6,
                    !.castlingRights = otherRights,
                    !.fiftyRule = IF captured # NO_PIECE \/ piece_type(pc) = PAWN
                                  THEN 0 ELSE previous.fiftyRule + 1,
                    !.pliesFromNull = previous.pliesFromNull + 1,
                    !.nonPawnMaterial = material,
                    !.epSquare = epNew,
                    !.capturedPiece = captured]
        pushed == [b4 EXCEPT !.positionHistory = Append(@, info),
                             !.moveCount = @ + 1]
        updated == update(change_side(pushed))
    IN SetCurrent(updated,
                  [current(updated) EXCEPT !.repetition = RepetitionScan(updated, current(updated))])

\* A take-back that puts the captured piece on the move's target square even
\* when the capture was en passant.
UndoCaptureSqOnTarget(us, m) == move_to(m)

\* undo_move: the square the captured piece goes back to.
UndoCaptureSq(us, m) ==
    IF move_type(m) = EN_PASSANT THEN move_to(m) - pawn_push(us) ELSE move_to(m)

\* Position::undo_move(m).
undo_move(p, m) ==
    LET sided == change_side([p EXCEPT !.moveCount = @ - 1])
        us == sided.sideToMove
        from == move_from(m)
        to == move_to(m)
        type == move_type(m)
        cur == current(p)
        unpromoted == IF type = PROMOTION
                      THEN set_piece(pop_piece(sided, to), make_piece(us, PAWN), to)
                      ELSE sided
        kingFrom == IF to > from THEN relative_square(us, G1) ELSE relative_square(us, C1)
        rookFrom == IF to > from THEN relative_square(us, F1) ELSE relative_square(us, D1)
        uncastled == set_piece(set_piece(pop_piece(pop_piece(unpromoted, kingFrom), rookFrom),
                                         make_piece(us, KING), from),
                               make_piece(us, ROOK), to)
        captureSq == UndoCaptureSq(us, m)
        movedBack == move_piece(unpromoted, to, from)
        restored == IF cur.capturedPiece # NO_PIECE
                    THEN set_piece(movedBack, cur.capturedPiece, captureSq)
                    ELSE movedBack
        board == IF type = CASTLING THEN uncastled ELSE restored
    IN [board EXCEPT !.positionHistory = SubSeq(@, 1, Len(@) - 1)]

\* The squares the castling loop of is_legal visits: from + d, then on in
\* steps of d until kingTo + d.  A walk that leaves the board never meets its
\* end square; CastleWalk stops it there and marks it with SQ_NONE.
RECURSIVE CastleWalk(_, _, _)
CastleWalk(s, d, last) ==
    IF s = last THEN <<>>
    ELSE IF ~is_ok(s) THEN <<SQ_NONE>>
    ELSE <<s>> \o CastleWalk(s + d, d, last)

\* Position::is_legal(m).
is_legal(p, m) ==
    LET us == p.sideToMove
        them == Not(us)
        ks == ksq(p, us)
        from == move_from(m)
        to == move_to(m)
        type == move_type(m)
        pc == piece_on(p, from)
        captureSquare == to - pawn_push(us)
        occupied == Xor(Xor(pieces_all(p), {from}), {captureSquare}) \cup {to}
        d == IF from < to THEN EAST ELSE WEST
        kingTo == IF to > from THEN relative_square(us, G1) ELSE relative_square(us, C1)
        walk == CastleWalk(from + d, d, kingTo + d)
        tail == IF from \in blockers(p) THEN lies_along(from, to, ks) /\ checks(p) = {}
                ELSE IF popcount(checks(p)) = 1 THEN to \in between_bb(ks, lsb(checks(p)))
                ELSE IF popcount(checks(p)) > 1 THEN FALSE
                ELSE TRUE
    IN IF type = EN_PASSANT
       THEN /\ attacks_bb(ks, ROOK, occupied)
                 \cap (pieces_cpt(p, them, ROOK) \cup pieces_cpt(p, them, QUEEN)) = {}
            /\ attacks_bb(ks, BISHOP, occupied)
                 \cap (pieces_cpt(p, them, BISHOP) \cup pieces_cpt(p, them, QUEEN)) = {}
       ELSE IF type = CASTLING
       THEN /\ checks(p) = {}
            /\ \A i \in 1..Len(walk) :
                  /\ walk[i] # SQ_NONE
                  /\ attackers(p, walk[i], pieces_all(p)) \cap pieces_c(p, them) = {}
            /\ tail
       ELSE IF piece_type(pc) = KING
       THEN attackers(p, to, Xor(pieces_all(p), {from})) \cap pieces_c(p, them) = {}
       ELSE tail

(***************************************************************************)
(* Position::is_pseudolegal.  Square & Bitboard, Square & int and          *)
(* Square | int have no overload in misc.hpp (only Bitboard-Square and     *)
(* Square-Square have), so the compiler takes the built-in integer         *)
(* operators: the square NUMBER is and-ed with the 64-bit word.  A square  *)
(* number has six bits, so only the low six bits of the other operand      *)
(* (squares A1..F1 of a bitboard, a negative int in two's complement)      *)
(* take part.                                                              *)
(***************************************************************************)
LowBits(n) == {j \in 0..5 : ((n % 64) \div (2 ^ j)) % 2 = 1}
BitboardLowBits(b) == b \cap (0..5)
\* int(to) & word # 0, the word given by its low six bits
RawAnd(to, low) == LowBits(to) \cap low # {}

is_pseudolegal(p, m) ==
    LET from == move_from(m)
        to == move_to(m)
        pc == piece_on(p, from)
        type == move_type(m)
        us == p.sideToMove
        them == Not(us)
        captured == IF type = EN_PASSANT THEN make_piece(them, PAWN) ELSE piece_on(p, to)
        rights == ColorRights(us, IF from < to THEN KING_SIDE ELSE QUEEN_SIDE)
        one == from + pawn_push(us)
        two == from + 2 * pawn_push(us)
        landing == LowBits(one) \cup LowBits(two) \cup BitboardLowBits(pawn_attacks(us, from))
        PawnOk ==
            /\ type # EN_PASSANT =>
                  /\ RawAnd(to, landing)
                  /\ ~(to = one /\ ~is_empty(p, to))
                  /\ ~(RawAnd(to, LowBits(two)) /\ ~is_empty(p, one) /\ ~is_empty(p, to))
                  /\ ~(/\ RawAnd(to, LowBits(two))
                       /\ relative_rank(us, rank_of(from)) # RANK_2
                       /\ relative_rank(us, rank_of(to)) # RANK_4)
                  /\ ~(captured # NO_PIECE /\ to \notin pawn_attacks(us, from))
                  /\ ~(to \in pawn_attacks(us, from) /\ captured = NO_PIECE)
            /\ type = EN_PASSANT =>
                  /\ ep_square(p) = to
                  /\ piece_on(p, to - pawn_push(us)) = make_piece(them, PAWN)
                  /\ relative_rank(us, rank_of(to)) = RANK_6
            /\ type = PROMOTION =>
                  /\ rank_of(to) = relative_rank(us, RANK_8)
                  /\ rank_of(from) = relative_rank(us, RANK_7)
        PieceOk ==
            /\ RawAnd(to, BitboardLowBits(attacks_bb_empty(from, piece_type(pc))))
            /\ (piece_type(pc) \in {KNIGHT, KING}
                \/ Xor(between_bb(from, to), {to}) \cap pieces_all(p) = {})
    IN /\ move_is_ok(m)
       /\ piece_color(pc) = us
       /\ ~(captured # NO_PIECE /\ piece_color(captured) # them)
       /\ piece_type(captured) # KING
       /\ (type \in {PROMOTION, EN_PASSANT} => piece_type(pc) = PAWN)
       /\ (type = CASTLING => piece_type(pc) = KING)
       /\ (type = CASTLING => can_castle(p, rights) /\ ~castling_blocked(p, CHOOSE r \in rights : TRUE))
       /\ IF piece_type(pc) = PAWN THEN PawnOk ELSE PieceOk

(***************************************************************************)
(* Position::see and Position::attacks_by.                                 *)
(***************************************************************************)
RECURSIVE SeeUnwindUnsigned(_, _)
SeeUnwindUnsigned(sc, depth) ==
    IF depth = 0 THEN sc
    ELSE SeeUnwindUnsigned([sc EXCEPT ![depth] = -Max(sc[depth], sc[depth + 1])], depth - 1)

\* while (--depth) score[depth - 1] = -max(-score[depth - 1], score[depth]);
\* sc[i + 1] is score[i].
RECURSIVE SeeUnwind(_, _)
SeeUnwind(sc, depth) ==
    IF depth = 0 THEN sc
    ELSE SeeUnwind([sc EXCEPT ![depth] = -Max(-sc[depth], sc[depth + 1])], depth - 1)

\* the while (true) loop of see(); the result is <<score, depth>> at the break.
RECURSIVE SeeLoop(_, _, _, _, _, _, _, _, _)
SeeLoop(p, from, to, occupied, attacks, us, ptFr, sc, depth0) ==
    LET depth == depth0 + 1
        att == attacks \cap occupied
        active == att \cap pieces_c(p, us)
        pt == CHOOSE t \in PAWN..KING :
                 /\ pieces_cpt(p, us, t) \cap active # {}
                 /\ \A u \in PAWN..(t - 1) : pieces_cpt(p, us, u) \cap active = {}
        sc1 == Append(sc, piece_value(ptFr) - sc[depth])
        s == lsb(pieces_cpt(p, us, pt) \cap att)
        occ1 == Xor(occupied, {s})
        horizontal == (pieces_pt(p, ROOK) \cup pieces_pt(p, QUEEN)) \ {from}
        diagonal == (pieces_pt(p, BISHOP) \cup pieces_pt(p, QUEEN)) \ {from}
        att1 == IF pt \in {PAWN, BISHOP, QUEEN}
                THEN att \cup (attacks_bb(to, BISHOP, occ1) \cap diagonal)
                ELSE IF pt \in {ROOK, QUEEN}
                THEN att \cup (attacks_bb(to, ROOK, occ1) \cap horizontal)
                ELSE att
    IN IF active = {} THEN <<sc, depth>>
       ELSE IF Max(-sc[depth], sc1[depth + 1]) < 0 THEN <<sc1, depth>>
       ELSE SeeLoop(p, from, to, occ1, att1, Not(us), pt, sc1, depth)

see(p, m) ==
    LET from == move_from(m)
        to == move_to(m)
        ptFr == piece_type(piece_on(p, from))
        ptTo == piece_type(piece_on(p, to))
        occupied == Xor(Xor(pieces_all(p), {from}), {to})
        run == SeeLoop(p, from, to, occupied, attackers(p, to, occupied),
                       p.sideToMove, ptFr, <<piece_value(ptTo)>>, 0)
    IN IF move_type(m) # NORMAL THEN 0
       ELSE IF ptTo = NO_PIECE_TYPE THEN 0
       ELSE SeeUnwind(run[1], run[2] - 1)[1]

\* Position::attacks_by(pt, side): the squares the side's pieces of that
\* type attack.
attacks_by(p, pt, side) ==
    IF pt = PAWN THEN pawn_attacks_bb(side, pieces_cpt(p, side, pt))
    ELSE UNION {attacks_bb(s, pt, pieces_all(p)) : s \in pieces_cpt(p, side, pt)}

(***************************************************************************)
(* history.hpp / history.cpp: the tables are kept as the entries that      *)
(* differ from the value History::clear() fills them with.                 *)
(***************************************************************************)
HistoryCleared ==
    [killers |-> <<>>, butterflyHistory |-> <<>>, continuationHistory |-> <<>>,
     captureHistory |-> <<>>]

\* Stats<T>::operator()(i, j, k) const
StatsAt(tbl, idx) == IF idx \in DOMAIN tbl THEN tbl[idx] ELSE 0
\* an assignment through Stats<T>::operator()(i, j, k)
StatsPut(tbl, idx, v) ==
    [i \in (DOMAIN tbl \cup {idx}) \ (IF v = 0 THEN {idx} ELSE {}) |->
        IF i = idx THEN v ELSE tbl[i]]

\* C++ integer division truncates toward zero
TruncDiv(a, b) == IF a >= 0 THEN a \div b ELSE -((-a) \div b)

get_killer(h, side, ply, id) == StatsAt(h.killers, <<side, ply, id>>)
get_butterfly(h, side, m) == StatsAt(h.butterflyHistory, <<side, move_from(m), move_to(m)>>)
get_capture(h, pc, to, pt) == StatsAt(h.captureHistory, <<pc, to, pt>>)
get_continuation(h, pc, sq, ply) == StatsAt(h.continuationHistory, <<ply + 7, pc, sq>>)

set_killer(h, side, m, ply) ==
    IF get_killer(h, side, ply, 0) # m
    THEN [h EXCEPT !.killers =
             StatsPut(StatsPut(h.killers, <<side, ply, 1>>, get_killer(h, side, ply, 0)),
                      <<side, ply, 0>>, m)]
    ELSE h

get_history(h, p, m, ply) ==
    LET us == p.sideToMove
        them == Not(us)
        from == move_from(m)
        to == move_to(m)
        pc == piece_on(p, from)
        pt == piece_type(pc)
        cap == piece_on(p, to)
        threatByPawn == attacks_by(p, PAWN, them)
        threatByMinor == attacks_by(p, KNIGHT, them) \cup attacks_by(p, BISHOP, them)
                         \cup threatByPawn
        threatByRook == attacks_by(p, ROOK, them) \cup threatByMinor
        threatenedPieces ==
            (pieces_cpt(p, us, QUEEN) \cap threatByRook)
            \cup (pieces_cpt(p, us, ROOK) \cap threatByMinor)
            \cup ((pieces_cpt(p, us, BISHOP) \cup pieces_cpt(p, us, KNIGHT)) \cap threatByPawn)
        v0 == 2 * get_butterfly(h, us, m)
              + get_continuation(h, pc, to, ply - 1)
              + get_continuation(h, pc, to, ply - 2)
              + get_continuation(h, pc, to, ply - 3)
              + TruncDiv(get_continuation(h, pc, to, ply - 4), 3)
              + get_continuation(h, pc, to, ply - 6)
        v1 == v0 + (IF to \in current(p).checkSquares[pt] THEN 16000 ELSE 0)
        v2 == v1 + (IF from \in threatenedPieces
                    THEN (IF pt = QUEEN /\ to \notin threatByRook THEN 50000
                          ELSE IF pt = ROOK /\ to \notin threatByMinor THEN 25000
                          ELSE IF to \notin threatByPawn THEN 15000 ELSE 0)
                    ELSE 0)
        v3 == v2 - (IF pt = QUEEN /\ to \in threatByRook THEN 50000
                    ELSE IF pt = ROOK /\ to \in threatByMinor THEN 25000 ELSE 0)
    IN IF is_capture(p, m)
       THEN 10 * piece_value(cap) + get_capture(h, pc, to, piece_type(cap))
       ELSE v3

(***************************************************************************)
(* movegen.hpp / movegen.cpp: the move generator.                          *)
(***************************************************************************)
CAPTURES == 0
QUIETS == 1

\* pop_lsb order: a bitboard is walked from its lowest square up.
RECURSIVE BBSeq(_)
BBSeq(b) == IF b = {} THEN <<>> ELSE <<lsb(b)>> \o BBSeq(b \ {lsb(b)})

RECURSIVE FlatMap(_, _, _)
FlatMap(Op(_), sq, i) == IF i > Len(sq) THEN <<>> ELSE Op(sq[i]) \o FlatMap(Op, sq, i + 1)

Promotions(from, to) == [i \in 1..4 |-> MakeMove(from, to, PROMOTION, KNIGHT + i - 1)]

\* a mask that is never narrowed
generate_mask_open(p) == Squares

\* Generator::generate_mask().
generate_mask(p) ==
    IF popcount(checks(p)) >= 2 THEN {}
    ELSE IF popcount(checks(p)) = 1 THEN between_bb(ksq(p, p.sideToMove), lsb(checks(p)))
    ELSE Squares

\* Generator::generate_pawns<T>(): the moves handed to add_move, in order.
generate_pawns(p, T, mask) ==
    LET us == p.sideToMove
        them == Not(us)
        friendlyPawns == pieces_cpt(p, us, PAWN)
        pawnsOnSeventh == {s \in friendlyPawns : rank_of(s) = relative_rank(us, RANK_7)}
        pawnsNotOnSeventh == friendlyPawns \ pawnsOnSeventh
        enemyPieces == pieces_c(p, them)
        emptySquares == Squares \ pieces_all(p)
        north == pawn_push(us)
        north_east == IF us = WHITE THEN NORTH_EAST ELSE SOUTH_WEST
        north_west == IF us = WHITE THEN NORTH_WEST ELSE SOUTH_EAST
        b2 == shift(pawnsNotOnSeventh, north) \cap emptySquares
        pawnMask == mask \cap (IF T = QUIETS THEN emptySquares ELSE enemyPieces)
        promotionMask == mask \cap emptySquares
        single == b2 \cap pawnMask
        double == shift({s \in b2 : rank_of(s) = relative_rank(us, RANK_3)}, north) \cap pawnMask
        Step(b, d) == FlatMap(LAMBDA to : <<NormalMove(to - d, to)>>, BBSeq(b), 1)
        Promo(b, d) == FlatMap(LAMBDA to : Promotions(to - d, to), BBSeq(b), 1)
        ep == IF ep_square(p) # SQ_NONE
              THEN FlatMap(LAMBDA from : <<MakeMove(from, ep_square(p), EN_PASSANT, KNIGHT)>>,
                           BBSeq(pawnsNotOnSeventh \cap pawn_attacks(them, ep_square(p))), 1)
              ELSE <<>>
    IN IF T = QUIETS
       THEN Step(single, north) \o Step(double, north + north)
       ELSE Step(shift(pawnsNotOnSeventh, north_east) \cap pawnMask, north_east)
            \o Step(shift(pawnsNotOnSeventh, north_west) \cap pawnMask, north_west)
            \o Promo(shift(pawnsOnSeventh, north) \cap promotionMask, north)
            \o Promo(shift(pawnsOnSeventh, north_east) \cap pawnMask, north_east)
            \o Promo(shift(pawnsOnSeventh, north_west) \cap pawnMask, north_west)
            \o ep

\* Generator::generate_piece<T>(pt).
generate_piece(p, T, pt, mask) ==
    LET us == p.sideToMove
        them == Not(us)
        enemyPieces == pieces_c(p, them)
        emptySquares == Squares \ pieces_all(p)
        kingMask == IF T = CAPTURES THEN enemyPieces ELSE emptySquares
        from == ksq(p, us)
        kingRights == IF us = WHITE THEN WHITE_KING ELSE BLACK_KING
        queenRights == IF us = WHITE THEN WHITE_QUEEN ELSE BLACK_QUEEN
        Castle(right) ==
            IF can_castle(p, {right}) /\ ~castling_blocked(p, right)
            THEN <<MakeMove(from, castle_rook_square(p, right), CASTLING, KNIGHT)>>
            ELSE <<>>
        pieceMask == mask \cap (IF T = QUIETS THEN emptySquares ELSE enemyPieces)
        PieceMoves(f) ==
            FlatMap(LAMBDA to : <<NormalMove(f, to)>>,
                    BBSeq(attacks_bb(f, pt, pieces_all(p)) \cap pieceMask), 1)
    IN IF pt = KING
       THEN FlatMap(LAMBDA to : <<NormalMove(from, to)>>,
                    BBSeq(attacks_bb(from, KING, {}) \cap kingMask), 1)
            \o (IF T = QUIETS /\ checks(p) = {}
                THEN Castle(kingRights) \o Castle(queenRights) ELSE <<>>)
       ELSE FlatMap(PieceMoves, BBSeq(pieces_cpt(p, us, pt)), 1)

\* Generator::generate<T>() for T = CAPTURES or QUIETS.
generate(p, T, mask) ==
    generate_pawns(p, T, mask)
    \o generate_piece(p, T, KNIGHT, mask) \o generate_piece(p, T, BISHOP, mask)
    \o generate_piece(p, T, ROOK, mask) \o generate_piece(p, T, QUEEN, mask)
    \o generate_piece(p, T, KING, mask)

\* add_move in PERFT mode keeps the moves is_legal accepts.
add_move_perft(p, cands) == SelectSeq(cands, LAMBDA m : is_legal(p, m))

\* Generator::Generator(p): generate_mask(), generate<LEGAL>(); the moves
\* next_best<LEGAL>() hands out are the captures, then the quiets.
LegalList(p) ==
    add_move_perft(p, generate(p, CAPTURES, generate_mask(p)))
    \o add_move_perft(p, generate(p, QUIETS, generate_mask(p)))

Range(f) == {f[i] : i \in DOMAIN f}
LegalSet(p) == Range(LegalList(p))

(***************************************************************************)
(* The staged generator of the search: Generator(p, h, mode, tt, ply),     *)
(* add_move, probe_list, next_best and next().  A MoveList is a pair of    *)
(* sequences; entry i of the C array is element i + 1.                     *)
(***************************************************************************)
EVASIONS == 2
LEGAL == 3

TT_MOVE == 0
INIT_CAPTURES == 1
GOOD_CAPTURES == 2
KILLER1 == 3
KILLER2 == 4
INIT_QUIETS == 5
GOOD_QUIETS == 6
BAD_CAPTURES == 7
BAD_QUIETS == 8
INIT_EVASIONS == 9
ALL_EVASIONS == 10

PV_SEARCH == 0
QSEARCH == 1
QSEARCH_CHECK == 2
PERFT == 3

EmptyList == [moves |-> <<>>, scores |-> <<>>]

\* Generator::Generator(p, h, m, tt, searchPly); `see` has no initial value
\* and is kept as the empty sequence until next_best<CAPTURES> assigns it.
Generator(p, h, mode, tt, searchPly) ==
    LET side == p.sideToMove
        k1 == get_killer(h, side, searchPly, 0)
        k2 == get_killer(h, side, searchPly, 1)
    IN [captures |-> EmptyList, quiets |-> EmptyList,
        killer1 |-> IF k1 = tt \/ mode = QSEARCH_CHECK THEN MoveNone ELSE k1,
        killer2 |-> IF k2 = tt \/ mode = QSEARCH_CHECK THEN MoveNone ELSE k2,
        seeScore |-> <<>>, see |-> <<>>,
        goodCaptures |-> 0, goodQuiets |-> 0, captureIdx |-> 0, quietIdx |-> 0,
        generationStage |-> TT_MOVE, mode |-> mode, side |-> side, ply |-> searchPly,
        ttMove |-> tt, skipQuiets |-> FALSE, mask |-> generate_mask(p)]

\* Generator::add_move<T>(m), with see(m), get_history(m, ply) and
\* is_legal(m) handed in as seeValue, hist and legal
add_move_scored(g, T, m, seeValue, hist, legal) ==
    IF g.mode # PERFT
    THEN IF m = g.ttMove THEN g
         ELSE IF T = CAPTURES
         THEN [g EXCEPT
                 !.seeScore = Append(@, seeValue),
                 !.goodCaptures = IF seeValue >= 0 THEN @ + 1 ELSE @,
                 !.captures = [moves |-> Append(@.moves, m),
                               scores |-> Append(@.scores,
                                   IF seeValue >= 0 THEN seeValue + 100000 + hist
                                   ELSE seeValue + 1000 + hist)]]
         ELSE IF m = g.killer1 \/ m = g.killer2 THEN g
         ELSE [g EXCEPT
                 !.goodQuiets = IF hist > -10000 THEN @ + 1 ELSE @,
                 !.quiets = [moves |-> Append(@.moves, m),
                             scores |-> Append(@.scores,
                                 IF hist > -10000 THEN hist + 100000 ELSE hist)]]
    ELSE IF legal
         THEN IF T = CAPTURES
              THEN [g EXCEPT !.captures.moves = Append(@, m)]
              ELSE [g EXCEPT !.quiets.moves = Append(@, m)]
         ELSE g

\* Generator::add_move<T>(m)
add_move(g, p, h, T, m) ==
    add_move_scored(g, T, m, see(p, m), get_history(h, p, m, g.ply), is_legal(p, m))

RECURSIVE AddMoves(_, _, _, _, _, _)
AddMoves(g, p, h, T, cands, i) ==
    IF i > Len(cands) THEN g
    ELSE AddMoves(add_move(g, p, h, T, cands[i]), p, h, T, cands, i + 1)

\* Generator::generate<T>() run on the generator: LEGAL is generate<CAPTURES>
\* then generate<QUIETS>, EVASIONS is generate<QUIETS>, and every add_move of
\* generate<T> is add_move<T>.
RECURSIVE GenerateInto(_, _, _, _)
GenerateInto(g, p, h, T) ==
    IF T = LEGAL THEN GenerateInto(GenerateInto(g, p, h, CAPTURES), p, h, QUIETS)
    ELSE IF T = EVASIONS THEN GenerateInto(g, p, h, QUIETS)
    ELSE AddMoves(g, p, h, T, generate(p, T, g.mask), 1)

\* probe_list(list, curr, best): the index (from 0) of the first highest
\* score from curr on.
ProbeBest(list, curr) ==
    CHOOSE b \in curr..(Len(list.scores) - 1) :
        /\ \A i \in curr..(Len(list.scores) - 1) : list.scores[i + 1] <= list.scores[b + 1]
        /\ \A i \in curr..(b - 1) : list.scores[i + 1] < list.scores[b + 1]
probe_list(list, curr) ==
    LET best == ProbeBest(list, curr)
    IN [list |-> [moves |-> [list.moves EXCEPT ![best + 1] = list.moves[curr + 1]],
                  scores |-> [list.scores EXCEPT ![best + 1] = list.scores[curr + 1]]],
        m |-> list.moves[best + 1], best |-> best]

\* Generator::next_best<T>(): the generator after the call and the move
\* returned (next() returns it at once: fall is FALSE)
next_best(g, T) ==
    IF T = CAPTURES
    THEN LET r == probe_list(g.captures, g.captureIdx)
         IN [g |-> [g EXCEPT !.captures = r.list, !.captureIdx = @ + 1,
                             !.see = <<g.seeScore[r.best + 1]>>],
             m |-> r.m, fall |-> FALSE]
    ELSE LET r == probe_list(g.quiets, g.quietIdx)
         IN [g |-> [g EXCEPT !.quiets = r.list, !.quietIdx = @ + 1], m |-> r.m,
             fall |-> FALSE]

\* Generator::next(): one operator per case label.  A case either returns
\* (the generator after the call and the move) or falls through to the
\* label that follows it in the switch.
Returned(g, m) == [g |-> g, m |-> m, fall |-> FALSE]
FallThrough(g) == [g |-> g, m |-> MoveNone, fall |-> TRUE]
StageInc(g) == [g EXCEPT !.generationStage = (@ + 1) % 256]

CaseTTMove(g, p) ==
    IF is_pseudolegal(p, g.ttMove) THEN Returned(StageInc(g), g.ttMove)
    ELSE FallThrough(StageInc(g))

CaseInitCaptures(g, p, h) == FallThrough(GenerateInto(StageInc(g), p, h, CAPTURES))

CaseGoodCaptures(g) ==
    IF g.captureIdx < g.goodCaptures THEN next_best(g, CAPTURES)
    ELSE IF g.mode = QSEARCH THEN Returned(g, MoveNone)
    ELSE FallThrough(IF g.mode = QSEARCH_CHECK
                     THEN [g EXCEPT !.generationStage = BAD_CAPTURES]
                     ELSE StageInc(g))

CaseKiller1(g, p) ==
    IF is_pseudolegal(p, g.killer1) THEN Returned(StageInc(g), g.killer1)
    ELSE FallThrough(StageInc(g))

CaseKiller2(g, p) ==
    IF is_pseudolegal(p, g.killer2) THEN Returned(StageInc(g), g.killer2)
    ELSE FallThrough(StageInc(g))

CaseInitQuiets(g, p, h) ==
    FallThrough(IF ~g.skipQuiets THEN GenerateInto(StageInc(g), p, h, QUIETS)
                ELSE StageInc(g))

CaseGoodQuiets(g) ==
    IF ~g.skipQuiets /\ g.quietIdx < g.goodQuiets THEN next_best(g, QUIETS)
    ELSE FallThrough(StageInc(g))

CaseBadCaptures(g) ==
    IF g.captureIdx < Len(g.captures.moves) THEN next_best(g, CAPTURES)
    ELSE FallThrough(IF g.mode = QSEARCH_CHECK
                     THEN [g EXCEPT !.generationStage = INIT_EVASIONS]
                     ELSE StageInc(g))

CaseBadQuiets(g) ==
    IF ~g.skipQuiets /\ g.quietIdx < Len(g.quiets.moves)
    THEN next_best(g, QUIETS) ELSE Returned(g, MoveNone)

CaseInitEvasions(g, p, h) == FallThrough(GenerateInto(StageInc(g), p, h, EVASIONS))

CaseAllEvasions(g) ==
    IF g.quietIdx < Len(g.quiets.moves) THEN next_best(g, QUIETS) ELSE Returned(g, MoveNone)

\* switch (generationStage): the case at a label
SwitchCase(g, p, h, label) ==
    CASE label = TT_MOVE -> CaseTTMove(g, p)
      [] label = INIT_CAPTURES -> CaseInitCaptures(g, p, h)
      [] label = GOOD_CAPTURES -> CaseGoodCaptures(g)
      [] label = KILLER1 -> CaseKiller1(g, p)
      [] label = KILLER2 -> CaseKiller2(g, p)
      [] label = INIT_QUIETS -> CaseInitQuiets(g, p, h)
      [] label = GOOD_QUIETS -> CaseGoodQuiets(g)
      [] label = BAD_CAPTURES -> CaseBadCaptures(g)
      [] label = BAD_QUIETS -> CaseBadQuiets(g)
      [] label = INIT_EVASIONS -> CaseInitEvasions(g, p, h)
      [] label = ALL_EVASIONS -> CaseAllEvasions(g)
      [] OTHER -> Returned(g, MoveNone)

\* the switch entered at a label and run down the labels: r is what the
\* case at the label did
RECURSIVE SwitchFrom(_, _, _, _)
SwitchDown(r, p, h, label) == IF r.fall THEN SwitchFrom(r.g, p, h, label + 1) ELSE r
SwitchFrom(g, p, h, label) == SwitchDown(SwitchCase(g, p, h, label), p, h, label)

next(g, p, h) == SwitchFrom(g, p, h, g.generationStage)

\* Generator::skip_quiets()
skip_quiets(g) == [g EXCEPT !.skipQuiets = TRUE]

(***************************************************************************)
(* The positions the engine is started from.                               *)
(***************************************************************************)
Placement(pairs) ==
    [s \in Squares |-> IF \E pr \in pairs : pr[2] = s
                       THEN (CHOOSE pr \in pairs : pr[2] = s)[1] ELSE NO_PIECE]

Fen(pairs, side, castling, epFile, epRank) ==
    [placement |-> Placement(pairs), side |-> side, castling |-> castling,
     epFile |-> epFile, epRank |-> epRank, fifty |-> 0, fullmove |-> 1]

CastleLetter(c, k) == [c |-> c, k |-> k, f |-> 0]
CastleFile(c, f) == [c |-> c, k |-> "F", f |-> f]

\* 4k3/8/8/8/8/8/8/R3K2R w KQ - 0 1
FenCastle ==
    Fen({<<W_ROOK, A1>>, <<W_KING, E1>>, <<W_ROOK, H1>>, <<B_KING, E8>>},
        WHITE, <<CastleLetter(WHITE, "K"), CastleLetter(WHITE, "Q")>>, -1, -1)

\* n3k3/1P1p4/8/4P3/8/8/8/4K3 b - - 0 1
FenPawns ==
    Fen({<<B_KNIGHT, A8>>, <<B_KING, E8>>, <<W_PAWN, B7>>, <<B_PAWN, D7>>,
         <<W_PAWN, E5>>, <<W_KING, E1>>},
        BLACK, <<>>, -1, -1)

\* 8/8/8/K2pP2r/8/8/8/4k3 w - d6 0 1
FenEnPassantPin ==
    Fen({<<W_KING, A5>>, <<B_PAWN, D5>>, <<W_PAWN, E5>>, <<B_ROOK, H5>>, <<B_KING, E1>>},
        WHITE, <<>>, 3, RANK_6)

\* 4k3/8/8/8/1b6/8/3N4/r3K2R w K - 0 1
FenCheck ==
    Fen({<<B_KING, E8>>, <<B_BISHOP, B4>>, <<W_KNIGHT, D2>>, <<B_ROOK, A1>>,
         <<W_KING, E1>>, <<W_ROOK, H1>>},
        WHITE, <<CastleLetter(WHITE, "K")>>, -1, -1)

\* 7k/8/8/8/8/8/8/rRK3R1 w GB - 0 1, a Chess960 position
FenChess960 ==
    Fen({<<B_KING, H8>>, <<B_ROOK, A1>>, <<W_ROOK, B1>>, <<W_KING, C1>>, <<W_ROOK, G1>>},
        WHITE, <<CastleFile(WHITE, 6), CastleFile(WHITE, 1)>>, -1, -1)

StartPositions ==
    {Position(FenCastle, FALSE), Position(FenPawns, FALSE), Position(FenEnPassantPin, FALSE),
     Position(FenCheck, FALSE), Position(FenChess960, TRUE)}

(***************************************************************************)
(* The position is driven the way perft and the search drive it: a legal   *)
(* move of the generator is made, and the last move made is taken back.    *)
(***************************************************************************)
MaxPly == 2

NoMoves == [made |-> <<>>, undone |-> MoveNone]
GenIdle == [state |-> "none"]
EvIdle == [idx |-> 0]
TableIdle == <<>>
SearchIdle == [phase |-> "idle"]

Init ==
    /\ pos \in StartPositions
    /\ moves = NoMoves
    /\ gen = GenIdle
    /\ ev = EvIdle
    /\ table = TableIdle
    /\ history = HistoryCleared
    /\ srch = SearchIdle

\* The moves the drivers play: what the generator hands out.  A move that
\* takes a king leaves ksq() = lsb(0), which is undefined; play stops before it.
Playable(p) == {m \in LegalSet(p) : piece_type(piece_on(p, move_to(m))) # KING}

DoMove ==
    /\ Len(moves.made) < MaxPly
    /\ \E m \in Playable(pos) :
          /\ pos' = do_move(pos, m)
          /\ moves' = [made |-> Append(moves.made, m), undone |-> MoveNone]
    /\ UNCHANGED <<gen, ev, table, history, srch>>

UndoMove ==
    /\ Len(moves.made) > 0
    /\ pos' = undo_move(pos, moves.made[Len(moves.made)])
    /\ moves' = [made |-> SubSeq(moves.made, 1, Len(moves.made) - 1),
                 undone |-> moves.made[Len(moves.made)]]
    /\ UNCHANGED <<gen, ev, table, history, srch>>

Next == DoMove \/ UndoMove

Spec == Init /\ [][Next]_vars

(***************************************************************************)
(* The generator is driven the way alphabeta and qsearch drive it: killers *)
(* are filed for the node's ply, a generator is constructed (with the move *)
(* found in the transposition table, which may be any 16-bit value), and   *)
(* next() is called until it returns Move::none().                         *)
(***************************************************************************)
MaxKillers == 2
GenPly == 1

\* the killers filed by sibling nodes: quiet moves of this ply
LastOf(list, n) == {list[i] : i \in Max(1, Len(list) - n + 1)..Len(list)}
KillerPool(p) == LastOf(LegalList(p), MaxKillers)

\* the moves a transposition-table entry may hand over: none, the moves of
\* the position, and values that belong to another position
TTForeign == {NormalMove(A1, make_square(RANK_3, 2)), NormalMove(D7, B1)}
TTMoves(p) == {MoveNone} \cup LegalSet(p) \cup TTForeign

GenInit ==
    /\ pos \in StartPositions
    /\ moves = NoMoves
    /\ gen = GenIdle
    /\ ev = EvIdle
    /\ table = TableIdle
    /\ history = HistoryCleared
    /\ srch = SearchIdle

\* update_histories: hist->set_killer(us, m, ply)
SetKiller ==
    /\ gen.state = "none"
    /\ \E m \in KillerPool(pos) : history' = set_killer(history, pos.sideToMove, m, GenPly)
    /\ UNCHANGED <<pos, moves, gen, ev, table, srch>>

\* alphabeta: Generator gen(pos, hist, PV_SEARCH, ttMove, sd->ply)
NewGeneratorSearch ==
    /\ gen.state = "none"
    /\ \E tt \in TTMoves(pos) :
          gen' = [state |-> "active", yielded |-> <<>>,
                  g |-> Generator(pos, history, PV_SEARCH, tt, GenPly)]
    /\ UNCHANGED <<pos, moves, ev, table, history, srch>>

\* qsearch: Generator gen(pos, hist, inCheck ? QSEARCH_CHECK : QSEARCH, Move::none(), sd->ply)
NewGeneratorQsearch ==
    /\ gen.state = "none"
    /\ gen' = [state |-> "active", yielded |-> <<>>,
               g |-> Generator(pos, history,
                               IF checks(pos) # {} THEN QSEARCH_CHECK ELSE QSEARCH,
                               MoveNone, GenPly)]
    /\ UNCHANGED <<pos, moves, ev, table, history, srch>>

\* the move loop after a call r of next(): the loop ends on Move::none()
Yielded(gn, r) ==
    IF r.m = MoveNone
    THEN [gn EXCEPT !.state = "done", !.g = r.g]
    ELSE [gn EXCEPT !.g = r.g, !.yielded = Append(@, r.m)]

\* while ((m = gen.next()) != Move::none())
GenNext ==
    /\ gen.state = "active"
    /\ gen' = Yielded(gen, next(gen.g, pos, history))
    /\ UNCHANGED <<pos, moves, ev, table, history, srch>>

\* alphabeta: if (moveCnt >= quietPruning) gen.skip_quiets()
SkipQuiets ==
    /\ gen.state = "active"
    /\ gen.g.mode = PV_SEARCH
    /\ gen.yielded # <<>>
    /\ ~gen.g.skipQuiets
    /\ gen' = [gen EXCEPT !.g = skip_quiets(@)]
    /\ UNCHANGED <<pos, moves, ev, table, history, srch>>

GenNextStep == SetKiller \/ NewGeneratorSearch \/ NewGeneratorQsearch \/ GenNext \/ SkipQuiets

SpecGen == GenInit /\ [][GenNextStep]_vars

(***************************************************************************)
(* tt.hpp / tt.cpp: the transposition table.  A 64-bit Key is kept as its  *)
(* two 32-bit halves, [hi, lo]; static_cast<uint32_t>(key) is the low      *)
(* half, and the slot mask num - 1 (below 2^32) meets the low half only.   *)
(***************************************************************************)
BOUND_NONE == 0
BOUND_UPPER == 1
BOUND_LOWER == 2
BOUND_EXACT == 3
NON_PV == 0
PV == 1

RECURSIVE BitAnd(_, _)
BitAnd(a, b) ==
    IF a = 0 \/ b = 0 THEN 0
    ELSE (a % 2) * (b % 2) + 2 * BitAnd(a \div 2, b \div 2)

Low32(k) == k.lo
\* static_cast<int16_t>(v) stored in a uint16_t field
Cast16(v) == v % 65536
Cast8(v) == v % 256

\* TTentry::clear()
TTentryClear ==
    [key32 |-> 0, score16 |-> 0, eval16 |-> 0, move16 |-> MoveNone,
     depth8 |-> 0, node8 |-> 0, age8 |-> 0]

NoKey == [hi |-> -1, lo |-> -1]
NoProbe == [key |-> NoKey, found |-> FALSE, entry |-> TTentryClear]

\* TTtable::resize(mb) followed by clear(), for a table of n entries.
\* lastSave (the key of the last save() aimed at each slot) and probed (the
\* result of the last probe()) are kept beside the table.
TTresize(n) ==
    [generation |-> 0, num |-> n, entries |-> [i \in 0..(n - 1) |-> TTentryClear],
     lastSave |-> [i \in 0..(n - 1) |-> NoKey], probed |-> NoProbe]

TTslot(t, k) == BitAnd(t.num - 1, Low32(k))

\* TTtable::save<T>(key, depth, score, eval, m, b)
save(t, T, k, depth, score, eval, m, b) ==
    LET idx == TTslot(t, k)
        entry == t.entries[idx]
        mv == IF m = MoveNone THEN entry.move16 ELSE m
        filled == [key32 |-> Low32(k), score16 |-> Cast16(score), eval16 |-> Cast16(eval),
                   move16 |-> mv, depth8 |-> Cast8(depth), node8 |-> Cast8(T * 4 + b),
                   age8 |-> t.generation]
    IN [t EXCEPT
          !.entries[idx] = IF \/ b = BOUND_EXACT
                              \/ entry.key32 # Low32(k)
                              \/ entry.age8 # t.generation
                              \/ entry.depth8 <= depth
                           THEN filled ELSE entry,
          !.lastSave[idx] = k,
          !.probed = NoProbe]

\* TTtable::probe(key, found) with the comparison of the keys left out
probe_any_key(t, k) ==
    LET entry == t.entries[TTslot(t, k)]
    IN [key |-> k, found |-> entry.key32 # 0, entry |-> entry]

\* TTtable::probe(key, found)
probe(t, k) ==
    LET entry == t.entries[TTslot(t, k)]
    IN [key |-> k, found |-> ~(entry.key32 = 0 \/ entry.key32 # Low32(k)), entry |-> entry]

\* TTtable::new_search()
new_search(t) == [t EXCEPT !.generation = IF @ = 255 THEN 0 ELSE @ + 1]

(***************************************************************************)
(* The table is driven by saves, probes and new searches in any order.     *)
(***************************************************************************)
TTNum == 2
MaxGeneration == 1
\* two keys that differ in the high half only, a third with other low bits
\* in the same slot, a fourth in the other slot
TTKeys == {[hi |-> 0, lo |-> 1], [hi |-> 1, lo |-> 1], [hi |-> 0, lo |-> 3], [hi |-> 0, lo |-> 2]}
TTDepths == {1, 3}
TTScores == {-5}
TTSavedMoves == {MoveNone, NormalMove(E1, D2)}
\* save<NON_PV>(..., BOUND_LOWER) and save<PV>(..., BOUND_EXACT)
TTNodes == {<<NON_PV, BOUND_LOWER>>, <<PV, BOUND_EXACT>>}

TTInit ==
    /\ pos \in {Position(FenCastle, FALSE)}
    /\ moves = NoMoves
    /\ gen = GenIdle
    /\ ev = EvIdle
    /\ table = TTresize(TTNum)
    /\ history = HistoryCleared
    /\ srch = SearchIdle

TTSave ==
    /\ \E k \in TTKeys, depth \in TTDepths, score \in TTScores, m \in TTSavedMoves,
          nb \in TTNodes :
          table' = save(table, nb[1], k, depth, score, 0, m, nb[2])
    /\ UNCHANGED <<pos, moves, gen, ev, history, srch>>

TTProbe ==
    /\ \E k \in TTKeys : table' = [table EXCEPT !.probed = probe(table, k)]
    /\ UNCHANGED <<pos, moves, gen, ev, history, srch>>

TTNewSearch ==
    /\ table.generation < MaxGeneration
    /\ table' = [new_search(table) EXCEPT !.probed = NoProbe]
    /\ UNCHANGED <<pos, moves, gen, ev, history, srch>>

TTNext == TTSave \/ TTProbe \/ TTNewSearch

SpecTT == TTInit /\ [][TTNext]_vars

(***************************************************************************)
(* search.cpp: stat_bonus / stat_malus; history.cpp: the gravity updates.  *)
(***************************************************************************)
stat_bonus(depth) == Min(300 * depth - 250, 1500)
stat_malus(depth) == Min(350 * depth - 200, 1700)

ButterflyMax == 7000
CaptureMax == 10000
ContinuationMax == 25000

\* entry += b - entry * b / max: the update with the sign of b kept in the
\* decay term
gravity_signed(entry, b, max) == entry + (b - TruncDiv(entry * b, max))

\* entry += b - entry * abs(b) / max
gravity(entry, b, max) == entry + (b - TruncDiv(entry * Abs(b), max))

update_butterfly(h, side, m, b) ==
    [h EXCEPT !.butterflyHistory =
        StatsPut(@, <<side, move_from(m), move_to(m)>>,
                 gravity(get_butterfly(h, side, m), b, ButterflyMax))]

update_capture(h, pc, to, pt, b) ==
    [h EXCEPT !.captureHistory =
        StatsPut(@, <<pc, to, pt>>, gravity(get_capture(h, pc, to, pt), b, CaptureMax))]

update_continuation(h, pc, sq, ply, b) ==
    [h EXCEPT !.continuationHistory =
        StatsPut(@, <<ply + 7, pc, sq>>,
                 gravity(get_continuation(h, pc, sq, ply), b, ContinuationMax))]

(***************************************************************************)
(* The tables are driven by the updates of the search, each called with a  *)
(* bonus stat_bonus(d) or a negated malus -stat_malus(d).  An update reads *)
(* and writes one entry of one table, so a run that mixes the tables is a  *)
(* shuffle of runs on single tables: a table is updated while the other    *)
(* two are as History::clear() left them.                                  *)
(***************************************************************************)
MaxStatDepth == 6
StatBonuses == UNION {{stat_bonus(d), -stat_malus(d)} : d \in 1..MaxStatDepth}

HistInit ==
    /\ pos \in {Position(FenCheck, FALSE)}
    /\ moves = NoMoves
    /\ gen = GenIdle
    /\ ev = EvIdle
    /\ table = TableIdle
    /\ history = HistoryCleared
    /\ srch = SearchIdle

\* update_quiet_stats: hist->update_butterfly(us, m, bonus)
UpdateButterfly ==
    /\ history.captureHistory = <<>> /\ history.continuationHistory = <<>>
    /\ \E b \in StatBonuses :
          history' = update_butterfly(history, pos.sideToMove, NormalMove(E1, F1), b)
    /\ UNCHANGED <<pos, moves, gen, ev, table, srch>>

\* update_history: hist->update_capture(pc, to, cap, bonus)
UpdateCapture ==
    /\ history.butterflyHistory = <<>> /\ history.continuationHistory = <<>>
    /\ \E b \in StatBonuses :
          history' = update_capture(history, piece_on(pos, D2), B4,
                                    piece_type(piece_on(pos, B4)), b)
    /\ UNCHANGED <<pos, moves, gen, ev, table, srch>>

\* update_continuation_histories: hist->update_continuation(pc, to, ply - i, bonus)
UpdateContinuation ==
    /\ history.butterflyHistory = <<>> /\ history.captureHistory = <<>>
    /\ \E b \in StatBonuses :
          history' = update_continuation(history, piece_on(pos, E1), F1, GenPly - 1, b)
    /\ UNCHANGED <<pos, moves, gen, ev, table, srch>>

HistNext == UpdateButterfly \/ UpdateCapture \/ UpdateContinuation

SpecHist == HistInit /\ [][HistNext]_vars

(***************************************************************************)
(* search.cpp / uci.cpp / timing.hpp: the threads of a search.  The UCI    *)
(* thread starts the main search thread (Uci::go) and may call Uci::stop;  *)
(* the main thread (id 0) starts the helpers and joins them.  A thread's   *)
(* place in Search::search is srch.pc[id]:                                 *)
(*   "none" not started, "start" started and before its first statement,   *)
(*   "spawn" (main) starting the helpers, "while" at the test of the       *)
(*   aspiration loop, "alphabeta" in the call, "check" at the test of      *)
(*   forceStop after it, "afterwhile" at the test that ends an iteration,  *)
(*   "exit" behind the depth loop, "join" (main) joining, "done" returned. *)
(* TimeManager::can_continue() is defined in none of the sources at hand:  *)
(* what it returns is an input of the steps that call it.  forceStop is a  *)
(* plain bool written and read by several threads without synchronisation: *)
(* a read yields the value it holds or one that has been overwritten since *)
(* the threads were started.                                               *)
(***************************************************************************)
MaxThreads == 2
MaxDepth == 2
MaxResearch == 1

\* SearchData::clear<false>(), of the fields kept here
SearchDataClear == [bestMove |-> MoveNone]

\* Search::set_threads(num), and the Uci object with no search started
set_threads(num) ==
    [ui |-> "idle", threadCount |-> num,
     threadData |-> [i \in 0..(num - 1) |-> SearchDataClear],
     rootMoves |-> <<>>, threads |-> <<>>,
     forceStop |-> FALSE, overwritten |-> {}, stopCalled |-> FALSE,
     pc |-> [i \in 0..(num - 1) |-> "none"],
     depth |-> [i \in 0..(num - 1) |-> 0],
     tries |-> [i \in 0..(num - 1) |-> 0],
     observed |-> [i \in 0..(num - 1) |-> FALSE],
     spawned |-> 0, joined |-> 0, returned |-> <<>>]

\* a write of tm->forceStop by a running thread
WriteForceStop(s, v) ==
    [s EXCEPT !.forceStop = v,
              !.overwritten = IF s.forceStop # v THEN @ \cup {s.forceStop} ELSE @]

\* the values a read of tm->forceStop may yield
ReadForceStop(s) == {s.forceStop} \cup s.overwritten

\* TimeManager::stop()
tm_stop(s) == WriteForceStop(s, TRUE)

\* thread.join() returns once the thread has returned, whatever the thread
join_any(s, id) == TRUE

\* thread.join() returns once the thread has returned
join(s, id) == s.pc[id] = "done"

SearchInit ==
    /\ pos \in {Position(FenCheck, FALSE)}
    /\ moves = NoMoves
    /\ gen = GenIdle
    /\ ev = EvIdle
    /\ table = TTresize(TTNum)
    /\ history = HistoryCleared
    /\ \E num \in 1..MaxThreads : srch = set_threads(num)

\* Uci::go: tm.reset(); mainThread = std::thread(&Uci::search, this)
UciGo ==
    /\ srch.ui = "idle"
    /\ srch' = [srch EXCEPT !.ui = "searching", !.forceStop = FALSE, !.overwritten = {},
                            !.pc[0] = "start"]
    /\ UNCHANGED <<pos, moves, gen, ev, table, history>>

\* Uci::stop: tm.stop(), then mainThread.join() is waited for
UciStop ==
    /\ srch.ui = "searching"
    /\ srch' = [tm_stop(srch) EXCEPT !.ui = "joining", !.stopCalled = TRUE]
    /\ UNCHANGED <<pos, moves, gen, ev, table, history>>

\* Uci::stop: mainThread.join() returns
UciJoined ==
    /\ srch.ui = "joining"
    /\ join(srch, 0)
    /\ srch' = [srch EXCEPT !.ui = "stopped"]
    /\ UNCHANGED <<pos, moves, gen, ev, table, history>>

\* Search::search, main thread, up to the loop that starts the helpers:
\* forceStop = false, table.new_search(), the root moves, the thread data
MainBegin ==
    /\ srch.pc[0] = "start"
    /\ srch' = [WriteForceStop(srch, FALSE) EXCEPT
                  !.rootMoves = LegalList(pos),
                  !.threadData = [i \in DOMAIN @ |-> SearchDataClear],
                  !.pc[0] = "spawn"]
    /\ table' = new_search(table)
    /\ UNCHANGED <<pos, moves, gen, ev, history>>

\* threads.emplace_back(&Search::search, this, pos, manager, i)
SpawnHelper ==
    /\ srch.pc[0] = "spawn"
    /\ Len(srch.threads) < srch.threadCount - 1
    /\ srch' = [srch EXCEPT !.threads = Append(@, Len(@) + 1),
                            !.spawned = @ + 1,
                            !.pc[Len(srch.threads) + 1] = "start"]
    /\ UNCHANGED <<pos, moves, gen, ev, table, history>>

\* the main thread enters its iterative deepening loop at depth 1
MainEnterLoop ==
    /\ srch.pc[0] = "spawn"
    /\ Len(srch.threads) = srch.threadCount - 1
    /\ srch' = [srch EXCEPT !.pc[0] = "while", !.depth[0] = 1, !.tries[0] = 0]
    /\ UNCHANGED <<pos, moves, gen, ev, table, history>>

\* Search::search, helper thread id: forceStop = false, then the loop
HelperBegin(id) ==
    /\ id # 0
    /\ srch.pc[id] = "start"
    /\ srch' = [WriteForceStop(srch, FALSE) EXCEPT
                  !.pc[id] = "while", !.depth[id] = 1, !.tries[id] = 0]
    /\ UNCHANGED <<pos, moves, gen, ev, table, history>>

\* while (tm->can_continue())
WhileTest(id) ==
    /\ srch.pc[id] = "while"
    /\ \E cc \in BOOLEAN :
          srch' = [srch EXCEPT !.pc[id] = IF cc THEN "alphabeta" ELSE "afterwhile"]
    /\ UNCHANGED <<pos, moves, gen, ev, table, history>>

\* score = alphabeta<PV>(&newPos, sd, alpha, beta, newDepth): with forceStop
\* read as set the call returns beta at once; otherwise the root node may
\* file any of the root moves as sd->bestMove
Alphabeta(id) ==
    /\ srch.pc[id] = "alphabeta"
    /\ \E fs \in ReadForceStop(srch) :
          IF fs
          THEN srch' = [srch EXCEPT !.pc[id] = "check", !.observed[id] = TRUE]
          ELSE \E m \in {srch.threadData[id].bestMove} \cup Range(srch.rootMoves) :
                  srch' = [srch EXCEPT !.pc[id] = "check", !.threadData[id].bestMove = m]
    /\ UNCHANGED <<pos, moves, gen, ev, table, history>>

\* if (tm->forceStop) break; then the aspiration window: search again with
\* another window, or leave the loop
CheckStop(id) ==
    /\ srch.pc[id] = "check"
    /\ \E fs \in ReadForceStop(srch), again \in BOOLEAN :
          srch' = IF fs
                  THEN [srch EXCEPT !.pc[id] = "afterwhile", !.observed[id] = TRUE]
                  ELSE IF again /\ srch.tries[id] < MaxResearch
                  THEN [srch EXCEPT !.pc[id] = "while", !.tries[id] = @ + 1]
                  ELSE [srch EXCEPT !.pc[id] = "afterwhile"]
    /\ UNCHANGED <<pos, moves, gen, ev, table, history>>

\* if (!tm->can_continue()) break; then ++depth and depth <= maxDepth
AfterWhile(id) ==
    /\ srch.pc[id] = "afterwhile"
    /\ \E cc \in BOOLEAN :
          srch' = IF cc /\ srch.depth[id] < MaxDepth
                  THEN [srch EXCEPT !.pc[id] = "while", !.depth[id] = @ + 1, !.tries[id] = 0]
                  ELSE [srch EXCEPT !.pc[id] = "exit"]
    /\ UNCHANGED <<pos, moves, gen, ev, table, history>>

\* a helper: return Move::none()
HelperReturn(id) ==
    /\ id # 0
    /\ srch.pc[id] = "exit"
    /\ srch' = [srch EXCEPT !.pc[id] = "done"]
    /\ UNCHANGED <<pos, moves, gen, ev, table, history>>

\* the main thread behind its loop: tm->stop()
MainStop ==
    /\ srch.pc[0] = "exit"
    /\ srch' = [tm_stop(srch) EXCEPT !.pc[0] = "join", !.joined = 0]
    /\ UNCHANGED <<pos, moves, gen, ev, table, history>>

\* for (auto& thread : threads) thread.join()
MainJoin ==
    /\ srch.pc[0] = "join"
    /\ srch.joined < Len(srch.threads)
    /\ join(srch, srch.threads[srch.joined + 1])
    /\ srch' = [srch EXCEPT !.joined = @ + 1]
    /\ UNCHANGED <<pos, moves, gen, ev, table, history>>

\* Move best = sd->bestMove; threads.clear(); return best
MainReturn ==
    /\ srch.pc[0] = "join"
    /\ srch.joined = Len(srch.threads)
    /\ srch' = [srch EXCEPT !.returned = <<srch.threadData[0].bestMove>>,
                            !.threads = <<>>, !.pc[0] = "done"]
    /\ UNCHANGED <<pos, moves, gen, ev, table, history>>

SearchThread(id) ==
    \/ HelperBegin(id) \/ WhileTest(id) \/ Alphabeta(id) \/ CheckStop(id)
    \/ AfterWhile(id) \/ HelperReturn(id)

MainThread == MainBegin \/ SpawnHelper \/ MainEnterLoop \/ MainStop \/ MainJoin \/ MainReturn

SearchNext ==
    \/ UciGo \/ UciStop \/ UciJoined
    \/ MainThread
    \/ \E id \in 0..(srch.threadCount - 1) : SearchThread(id)

SpecSearch == SearchInit /\ [][SearchNext]_vars

\* every started thread runs (the scheduler of the operating system), and
\* Uci::stop, once called, gets to its join; go and stop are the user's
SpecSearchFair ==
    /\ SearchInit /\ [][SearchNext]_vars
    /\ WF_vars(MainThread)
    /\ \A id \in 0..(MaxThreads - 1) : WF_vars(id < srch.threadCount /\ SearchThread(id))
    /\ WF_vars(UciJoined)

(***************************************************************************)
(* The NNUE evaluator (nn/accumulator.hpp, nn/accumulator.cpp,             *)
(* nn/evaluate.cpp).  An accumulator is L0_BIAS plus or minus one row of   *)
(* L0_WEIGHT per feature, summed in int16 arithmetic that wraps around;    *)
(* the sum is a commutative group, and the weights are loaded from a file  *)
(* that is not part of the sources, so an accumulator is kept as the       *)
(* signed count of every row in the sum: BiasRow stands for L0_BIAS, the   *)
(* rows of L0_WEIGHT are the feature indices, and the empty function is    *)
(* the vector of zeros.                                                    *)
(***************************************************************************)
KingBucketsWhite ==
    << 0,  1,  2,  3,  3,  2,  1,  0,
       4,  5,  6,  7,  7,  6,  5,  4,
       8,  9,  10, 11, 11, 10, 9,  8,
       8,  9,  10, 11, 11, 10, 9,  8,
       12, 12, 13, 13, 13, 13, 12, 12,
       12, 12, 13, 13, 13, 13, 12, 12,
       14, 14, 15, 15, 15, 15, 14, 14,
       14, 14, 15, 15, 15, 15, 14, 14 >>
\* the second row of the table is the first one read from the eighth rank down
KingBuckets ==
    [c \in Colors |-> [s \in Squares |->
        KingBucketsWhite[(IF c = WHITE THEN s ELSE make_square(7 - rank_of(s), file_of(s))) + 1]]] @@ <<>>
OrientSq ==
    [c \in Colors |-> [s \in Squares |->
        IF c = WHITE THEN s ELSE make_square(7 - rank_of(s), file_of(s))]] @@ <<>>
KING_SIDEBB == {s \in Squares : file_of(s) >= 4}
BiasRow == -1

\* s ^= 7 * !!(ksq & 0x4): bit 2 of the king's square is set on files e..h, and
\* s XOR 7 mirrors the file of s
make_index(sq, pc, kingSq, side) ==
    LET o == OrientSq[side][sq]
        s == IF (kingSq \div 4) % 2 = 1 THEN make_square(rank_of(o), 7 - file_of(o)) ELSE o
    IN  s + (piece_type(pc) - 1) * SQ_NB
          + (IF piece_color(pc) = side THEN 1 ELSE 0) * SQ_NB * 6
          + KingBuckets[side][kingSq] * SQ_NB * 6 * 2

is_refresh_required(pc, from, to) ==
    IF piece_type(pc) # KING THEN FALSE
    ELSE IF file_of(from) + file_of(to) = 7 THEN TRUE
    ELSE KingBuckets[piece_color(pc)][from] # KingBuckets[piece_color(pc)][to]

RowCount(v, row) == IF row \in DOMAIN v THEN v[row] ELSE 0
AddRow(v, row, n) ==
    IF n = 0 THEN [r \in DOMAIN v \ {row} |-> v[r]]
    ELSE [r \in DOMAIN v \cup {row} |-> IF r = row THEN n ELSE v[r]]
apply_delta(v, add, idx) == AddRow(v, idx, RowCount(v, idx) + (IF add THEN 1 ELSE -1))
L0_BIAS == [r \in {BiasRow} |-> 1]
Zeroes == [r \in {} |-> 0]

\* value-initialised tables: computed[]{} and values[][]{}
AccumulatorTable == [computed |-> [c \in Colors |-> FALSE], values |-> [c \in Colors |-> Zeroes]]
RefreshEntryReset == [values |-> L0_BIAS, pieces |-> [pc \in Pieces |-> {}]]
RefreshTableReset == [c \in Colors |-> [i \in 0..31 |-> RefreshEntryReset]]

\* while (occupied) { sq = pop_lsb(occupied); apply_delta<true>(state, make_index(sq, piece_on(sq), ksq, c)); }
RECURSIVE AddOccupied(_, _, _, _, _)
AddOccupied(v, b, p, kingSq, side) ==
    IF b = {} THEN v
    ELSE AddOccupied(apply_delta(v, TRUE, make_index(lsb(b), piece_on(p, lsb(b)), kingSq, side)),
                     b \ {lsb(b)}, p, kingSq, side)

\* AccumulatorTable::reset
AccumulatorReset(p) ==
    [computed |-> [c \in Colors |-> TRUE],
     values |-> [c \in Colors |-> AddOccupied(L0_BIAS, pieces_all(p), p, ksq(p, c), c)]]

\* while (b) apply_delta<add>(state->values, make_index(pop_lsb(b), pc, ksq, side))
RECURSIVE ApplyAll(_, _, _, _, _, _)
ApplyAll(v, add, b, pc, kingSq, side) ==
    IF b = {} THEN v
    ELSE ApplyAll(apply_delta(v, add, make_index(lsb(b), pc, kingSq, side)),
                  add, b \ {lsb(b)}, pc, kingSq, side)

\* the body of the loops of AccumulatorTable::refresh for one piece
RefreshPiece(state, p, pc, kingSq, side) ==
    [values |-> ApplyAll(ApplyAll(state.values, FALSE, state.pieces[pc] \ pieces_pc(p, pc), pc, kingSq, side),
                         TRUE, pieces_pc(p, pc) \ state.pieces[pc], pc, kingSq, side),
     pieces |-> [state.pieces EXCEPT ![pc] = pieces_pc(p, pc)]]
PieceOrder == <<W_PAWN, W_PAWN + 1, W_PAWN + 2, W_PAWN + 3, W_PAWN + 4, W_KING,
                B_PAWN, B_PAWN + 1, B_PAWN + 2, B_PAWN + 3, B_PAWN + 4, B_KING>>
RECURSIVE RefreshPieces(_, _, _, _, _)
RefreshPieces(state, p, i, kingSq, side) ==
    IF i > Len(PieceOrder) THEN state
    ELSE RefreshPieces(RefreshPiece(state, p, PieceOrder[i], kingSq, side), p, i + 1, kingSq, side)

RefreshSlot(kingSq, side) == (IF kingSq \in KING_SIDEBB THEN 16 ELSE 0) + KingBuckets[side][kingSq]

(* An Evaluator: store is the storage of the vector `history` (what lies   *)
(* in it, inside and beyond the vector's size), size is history.size(),    *)
(* and made counts the moves made on it.                                   *)
Refreshed(e, slot, side, state) ==
    [e EXCEPT !.refreshTable[side][slot] = state,
              !.store[e.historyIdx].values[side] = state.values,
              !.store[e.historyIdx].computed[side] = TRUE]
\* AccumulatorTable::refresh, on history[historyIdx]
refresh(e, p, side) ==
    Refreshed(e, RefreshSlot(ksq(p, side), side), side,
              RefreshPieces(e.refreshTable[side][RefreshSlot(ksq(p, side), side)], p, 1, ksq(p, side), side))

\* sa, ssa and ssaa: history[idx] = history[idx - 1] minus the rows subtracted plus the rows added
AccTarget(e, side, v) == [e EXCEPT !.store[e.historyIdx].values[side] = v]
AccSource(e, side) == e.store[e.historyIdx - 1].values[side]
sa(e, side, idx1, idx2) ==
    AccTarget(e, side, apply_delta(apply_delta(AccSource(e, side), FALSE, idx1), TRUE, idx2))
ssa(e, side, idx1, idx2, idx3) ==
    AccTarget(e, side, apply_delta(apply_delta(apply_delta(AccSource(e, side), FALSE, idx1), FALSE, idx2), TRUE, idx3))
ssaa(e, side, idx1, idx2, idx3, idx4) ==
    AccTarget(e, side, apply_delta(apply_delta(apply_delta(apply_delta(AccSource(e, side),
                                    FALSE, idx1), FALSE, idx2), TRUE, idx3), TRUE, idx4))

MaxEvalPly == 2
\* the moves made in all, over which the refresh table fills
MaxEvalMoves == 2
\* the elements of storage the vector can come to hold: resize(historyIdx + 3)
EvalStore == MaxEvalPly + 3

\* Evaluator::Evaluator(): the refresh table is reset, storage is reserved and
\* one value-initialised table is pushed
Evaluator ==
    [store |-> [i \in 0..(EvalStore - 1) |-> AccumulatorTable], size |-> 1, historyIdx |-> 0,
     refreshTable |-> RefreshTableReset, made |-> 0]

\* Evaluator::reset: history.clear() leaves size() = 0 and the storage in place,
\* and history[0].reset(pos) then writes an element the vector does not hold.
\* operator[] does no bounds check (a build with hardened containers stops
\* here); the write lands in the storage reserved by the constructor.
EvaluatorReset(e, p) ==
    [e EXCEPT !.size = 0, !.historyIdx = 0, !.store[0] = AccumulatorReset(p)]

\* history.resize(n) with n > size(): the elements from size() on are
\* value-initialised, whatever the storage held
resize(e, n) ==
    [e EXCEPT !.size = n,
              !.store = [i \in DOMAIN e.store |-> IF e.size <= i /\ i < n THEN AccumulatorTable ELSE e.store[i]]]

apply_lazy_updates(e, p, side, m, pc, cap) ==
    IF move_type(m) = CASTLING
    THEN ssaa(e, side,
              make_index(move_from(m), pc, ksq(p, side), side),
              make_index(move_to(m), cap, ksq(p, side), side),
              make_index(relative_square(piece_color(pc), IF move_to(m) > move_from(m) THEN G1 ELSE C1),
                         pc, ksq(p, side), side),
              make_index(relative_square(piece_color(pc), IF move_to(m) > move_from(m) THEN F1 ELSE D1),
                         cap, ksq(p, side), side))
    ELSE IF cap # NO_PIECE
    THEN ssa(e, side,
             make_index(move_from(m), pc, ksq(p, side), side),
             make_index(IF move_type(m) = EN_PASSANT THEN move_to(m) - pawn_push(piece_color(pc)) ELSE move_to(m),
                        cap, ksq(p, side), side),
             make_index(move_to(m), IF is_promotion(m) THEN make_piece(piece_color(pc), move_promotion(m)) ELSE pc,
                        ksq(p, side), side))
    ELSE sa(e, side,
            make_index(move_from(m), pc, ksq(p, side), side),
            make_index(move_to(m), IF is_promotion(m) THEN make_piece(piece_color(pc), move_promotion(m)) ELSE pc,
                       ksq(p, side), side))

\* the body of the loop over the two colours in update_history<false>
UpdateSide(e, p, c, m, pc, cap) ==
    IF c = piece_color(pc) /\ is_refresh_required(pc, move_from(m), move_to(m)) THEN refresh(e, p, c)
    ELSE IF e.store[e.historyIdx - 1].computed[c] THEN apply_lazy_updates(e, p, c, m, pc, cap)
    ELSE refresh(e, p, c)
\* historyIdx++; if (historyIdx >= history.size()) history.resize(historyIdx + 3);
Advance(e) == IF e.historyIdx + 1 >= e.size THEN resize([e EXCEPT !.historyIdx = @ + 1], e.historyIdx + 4)
                                             ELSE [e EXCEPT !.historyIdx = @ + 1]
\* update_history<false>
update_history(e, p, m, pc, cap) ==
    UpdateSide(UpdateSide(Advance(e), p, WHITE, m, pc, cap), p, BLACK, m, pc, cap)
\* update_history<true>
update_history_undo(e) ==
    [e EXCEPT !.store[e.historyIdx].computed = [c \in Colors |-> FALSE],
              !.historyIdx = IF @ > 0 THEN @ - 1 ELSE @]

\* Evaluator::propagate reads the accumulators of history[historyIdx], the
\* side's own first; the layer behind them is a function of the two
propagate(e, side) == <<e.store[e.historyIdx].values[side], e.store[e.historyIdx].values[Not(side)]>>
\* Evaluator::predict: history[historyIdx].reset(pos), then propagate(pos->side())
predict(e, p) == propagate([e EXCEPT !.store[e.historyIdx] = AccumulatorReset(p)], p.sideToMove)

(***************************************************************************)
(* The position drives its evaluator: the constructor of the evaluator,    *)
(* Evaluator::reset on the position set up, and from then on do_move       *)
(* followed by update_history<false> with the piece moved and the piece    *)
(* taken (the rook, for castling), and undo_move followed by               *)
(* update_history<true>.                                                   *)
(***************************************************************************)
EvalInit ==
    /\ pos \in StartPositions
    /\ moves = NoMoves
    /\ gen = GenIdle
    /\ ev = EvaluatorReset(Evaluator, pos)
    /\ table = TableIdle
    /\ history = HistoryCleared
    /\ srch = SearchIdle

Taken(p, m) ==
    IF move_type(m) = EN_PASSANT THEN make_piece(Not(p.sideToMove), PAWN) ELSE piece_on(p, move_to(m))

EvalDoMove ==
    /\ Len(moves.made) < MaxEvalPly
    /\ ev.made < MaxEvalMoves
    /\ \E m \in Playable(pos) :
          /\ pos' = do_move(pos, m)
          /\ ev' = [update_history(ev, do_move(pos, m), m, piece_on(pos, move_from(m)), Taken(pos, m))
                        EXCEPT !.made = @ + 1]
          /\ moves' = [made |-> Append(moves.made, m), undone |-> MoveNone]
    /\ UNCHANGED <<gen, table, history, srch>>

EvalUndoMove ==
    /\ Len(moves.made) > 0
    /\ pos' = undo_move(pos, moves.made[Len(moves.made)])
    /\ ev' = update_history_undo(ev)
    /\ moves' = [made |-> SubSeq(moves.made, 1, Len(moves.made) - 1),
                 undone |-> moves.made[Len(moves.made)]]
    /\ UNCHANGED <<gen, table, history, srch>>

EvalNext == EvalDoMove \/ EvalUndoMove

SpecEval == EvalInit /\ [][EvalNext]_vars

(***************************************************************************)
(* Scores on their way into and out of the transposition table (types.hpp) *)
(***************************************************************************)
MAX_PLY == 246
VALUE_NONE == 32002
VALUE_MATE == 32000
VALUE_MATE_IN_MAX_PLY == VALUE_MATE - MAX_PLY
VALUE_MATED_IN_MAX_PLY == -VALUE_MATE_IN_MAX_PLY
VALUE_WIN == VALUE_MATE_IN_MAX_PLY - 1
VALUE_LOSS == -VALUE_WIN
VALUE_WIN_MAX_PLY == VALUE_WIN - MAX_PLY
VALUE_LOSS_MAX_PLY == VALUE_LOSS + MAX_PLY
mate_in(ply) == VALUE_MATE - ply
mated_in(ply) == -VALUE_MATE + ply

value_from_tt_no_ply(v, ply, fifty) == v

value_from_tt(v, ply, fifty) ==
    IF v = VALUE_NONE THEN VALUE_NONE
    ELSE IF v >= VALUE_WIN_MAX_PLY THEN
        IF v >= VALUE_MATE_IN_MAX_PLY /\ VALUE_MATE - v > 100 - fifty THEN VALUE_WIN_MAX_PLY - 1
        ELSE IF VALUE_WIN - v > 100 - fifty THEN VALUE_WIN_MAX_PLY - 1
        ELSE v - ply
    ELSE IF v <= VALUE_LOSS_MAX_PLY THEN
        IF v <= VALUE_MATED_IN_MAX_PLY /\ VALUE_MATE + v > 100 - fifty THEN VALUE_LOSS_MAX_PLY + 1
        ELSE IF VALUE_WIN + v > 100 - fifty THEN VALUE_LOSS_MAX_PLY + 1
        ELSE v + ply
    ELSE v

value_to_tt(v, ply) ==
    IF v >= VALUE_WIN_MAX_PLY THEN v + ply
    ELSE IF v <= VALUE_LOSS_MAX_PLY THEN v - ply
    ELSE v

\* The scores and plies the two functions are applied to: mates at both ends
\* of the range and on both sides of a distance of a hundred plies, plies at
\* both ends of [0, MAX_PLY) and around a hundred.
MaxGap == 2
FiftyLimit == 100
Around(n) == {k \in (n - MaxGap)..(n + MaxGap) : 0 <= k /\ k <= MAX_PLY}
MateDistances == Around(0) \cup Around(FiftyLimit) \cup Around(MAX_PLY)
MateScores == {mate_in(d) : d \in MateDistances} \cup {mated_in(d) : d \in MateDistances}
TTPlies == {k \in Around(0) \cup Around(FiftyLimit) \cup Around(MAX_PLY - 1) : k < MAX_PLY}

ValueInit ==
    /\ pos = EmptyPosition
    /\ moves = NoMoves
    /\ gen = GenIdle
    /\ ev = EvIdle
    /\ table \in [phase : {"score"}, v : MateScores, ply : TTPlies]
    /\ history = HistoryCleared
    /\ srch = SearchIdle

\* tte->save(.., value_to_tt(score, ply), ..)
ValueToTT ==
    /\ table.phase = "score"
    /\ table' = [phase |-> "stored", v |-> table.v, ply |-> table.ply,
                 stored |-> value_to_tt(table.v, table.ply)]
    /\ UNCHANGED <<pos, moves, gen, ev, history, srch>>

\* ttValue = value_from_tt(tte->score(), ply, pos->fifty_rule()), the counter at 0
ValueFromTT ==
    /\ table.phase = "stored"
    /\ \E ply2 \in TTPlies :
          table' = [phase |-> "loaded", v |-> table.v, ply |-> table.ply, stored |-> table.stored,
                    ply2 |-> ply2, loaded |-> value_from_tt(table.stored, ply2, 0)]
    /\ UNCHANGED <<pos, moves, gen, ev, history, srch>>

ValueNext == ValueToTT \/ ValueFromTT

SpecValue == ValueInit /\ [][ValueNext]_vars

(***************************************************************************)
(* A game long enough for positions to come back: the kings walk behind    *)
(* their blocked pawns, one pawn is free to advance, and moves are made     *)
(* and taken back as the search does.                                      *)
(***************************************************************************)
\* Position::is_draw
is_draw(p) ==
    IF current(p).fiftyRule > 99 /\ checks(p) = {} THEN TRUE ELSE current(p).repetition

\* 7k/7p/7P/8/8/p7/P3P3/K7 w - - 0 1
FenKings ==
    Fen({<<B_KING, H8>>, <<B_PAWN, H8 - 8>>, <<W_PAWN, H8 - 16>>,
         <<B_PAWN, A1 + 16>>, <<W_PAWN, A1 + 8>>, <<W_PAWN, E1 + 8>>, <<W_KING, A1>>},
        WHITE, <<>>, -1, -1)

MaxGamePly == 6

GameInit ==
    /\ pos = Position(FenKings, FALSE)
    /\ moves = NoMoves
    /\ gen = GenIdle
    /\ ev = EvIdle
    /\ table = TableIdle
    /\ history = HistoryCleared
    /\ srch = SearchIdle

GameDoMove ==
    /\ Len(moves.made) < MaxGamePly
    /\ \E m \in Playable(pos) :
          /\ pos' = do_move(pos, m)
          /\ moves' = [made |-> Append(moves.made, m), undone |-> MoveNone]
    /\ UNCHANGED <<gen, ev, table, history, srch>>

GameUndoMove ==
    /\ Len(moves.made) > 0
    /\ pos' = undo_move(pos, moves.made[Len(moves.made)])
    /\ moves' = [made |-> SubSeq(moves.made, 1, Len(moves.made) - 1),
                 undone |-> moves.made[Len(moves.made)]]
    /\ UNCHANGED <<gen, ev, table, history, srch>>

GameNext == GameDoMove \/ GameUndoMove

SpecGame == GameInit /\ [][GameNext]_vars

(***************************************************************************)
(* The UCI front-end (uci.cpp): Uci::loop reads one command at a time and  *)
(* runs its handler to the end; mainThread runs Uci::search on the         *)
(* front-end's own pos, tm and table.  thread is "none" before the first   *)
(* go, "running" while Search::search runs, "finished" once it has         *)
(* returned and "joined" after join(); it is joinable() in between.        *)
(***************************************************************************)
MaxCommands == 4
MaxSearchSteps == 2
HashSizes == {1, TTNum}

joinable(u) == u.thread \in {"running", "finished"}
\* what a handler leaves behind when it changes pos or table: the command is
\* noted if mainThread is still running Search::search
Processed(u, cmd) ==
    [u EXCEPT !.commands = @ + 1,
              !.whileRunning = IF u.thread = "running" THEN @ \cup {cmd} ELSE @]

UciInit ==
    /\ pos = Position(FenCheck, FALSE)
    /\ moves = NoMoves
    /\ gen = GenIdle
    /\ ev = EvIdle
    /\ table = TTresize(TTNum)
    /\ history = HistoryCleared
    /\ srch = [at |-> "read", thread |-> "none", forceStop |-> FALSE, steps |-> 0, commands |-> 0,
               whileRunning |-> {}, started |-> 0]

\* Uci::parse_go up to the join inside stop(): tm.stop()
ParseGoStop ==
    /\ srch.at = "read" /\ srch.commands < MaxCommands
    /\ srch' = [srch EXCEPT !.forceStop = TRUE, !.at = "go_join"]
    /\ UNCHANGED <<pos, moves, gen, ev, table, history>>

\* Uci::parse_go from the join on: if (mainThread.joinable()) mainThread.join(),
\* tm.reset(), the limits, mainThread = std::thread(&Uci::search, this)
ParseGoStart ==
    /\ srch.at = "go_join"
    /\ srch.thread # "running"
    /\ srch' = [Processed(srch, "go") EXCEPT !.at = "read", !.forceStop = FALSE, !.thread = "running",
                                             !.steps = 0, !.started = @ + 1]
    /\ UNCHANGED <<pos, moves, gen, ev, table, history>>

\* Uci::parse_position: pos = Position(fen, false)
ParsePosition ==
    /\ srch.at = "read" /\ srch.commands < MaxCommands
    /\ \E given \in {FenCheck, FenCastle} : pos' = Position(given, FALSE)
    /\ srch' = Processed(srch, "position")
    /\ UNCHANGED <<moves, gen, ev, table, history>>

\* Uci::parse_option, opt == "Hash": table.resize(mb)
ParseOptionHash ==
    /\ srch.at = "read" /\ srch.commands < MaxCommands
    /\ \E n \in HashSizes : table' = TTresize(n)
    /\ srch' = Processed(srch, "setoption Hash")
    /\ UNCHANGED <<pos, moves, gen, ev, history>>

\* Uci::stop: tm.stop()
ParseStop ==
    /\ srch.at = "read" /\ srch.commands < MaxCommands
    /\ srch' = [srch EXCEPT !.forceStop = TRUE, !.at = "stop_join", !.commands = @ + 1]
    /\ UNCHANGED <<pos, moves, gen, ev, table, history>>

\* Uci::stop: if (mainThread.joinable()) mainThread.join()
ParseStopJoined ==
    /\ srch.at = "stop_join"
    /\ srch.thread # "running"
    /\ srch' = [srch EXCEPT !.at = "read", !.thread = IF joinable(srch) THEN "joined" ELSE @]
    /\ UNCHANGED <<pos, moves, gen, ev, table, history>>

\* mainThread inside s.search(&pos, &tm): table.new_search() and the root
\* moves of pos first, iterations on pos and table after that
UciSearchStep ==
    /\ srch.thread = "running" /\ ~srch.forceStop /\ srch.steps < MaxSearchSteps
    /\ srch' = [srch EXCEPT !.steps = @ + 1]
    /\ table' = IF srch.steps = 0 THEN new_search(table) ELSE table
    /\ UNCHANGED <<pos, moves, gen, ev, history>>

\* mainThread: Search::search returns (stopped, or out of depth or time) and
\* Uci::search prints the best move
UciSearchReturn ==
    /\ srch.thread = "running"
    /\ srch' = [srch EXCEPT !.thread = "finished"]
    /\ UNCHANGED <<pos, moves, gen, ev, table, history>>

UciNext ==
    \/ ParseGoStop \/ ParseGoStart \/ ParsePosition \/ ParseOptionHash
    \/ ParseStop \/ ParseStopJoined \/ UciSearchStep \/ UciSearchReturn

SpecUci == UciInit /\ [][UciNext]_vars

(***************************************************************************)
(* Position::see on exchanges on d5: White captures there, any of White's  *)
(* pieces below may attack the square (the bishop behind the pawn and the  *)
(* rook behind the queen through them), any of Black's may defend it.      *)
(***************************************************************************)
At(file, rank) == make_square(rank - 1, file - 1)
\* Pe4, Nc3, Bg2, Qd3, Rd1
SeeAttackers ==
    {<<W_PAWN, At(5, 4)>>, <<W_KNIGHT, At(3, 3)>>, <<make_piece(WHITE, BISHOP), At(7, 2)>>,
     <<make_piece(WHITE, QUEEN), At(4, 3)>>, <<W_ROOK, D1>>}
\* Pe6, Nf6, Bb7, Qd7, Rd8
SeeDefenders ==
    {<<B_PAWN, At(5, 6)>>, <<B_KNIGHT, At(6, 6)>>, <<B_BISHOP, B7>>,
     <<make_piece(BLACK, QUEEN), D7>>, <<B_ROOK, At(4, 8)>>}
SeeCaptured == PAWN..QUEEN
SeeFen(att, def, pt) ==
    Fen(att \cup def \cup {<<make_piece(BLACK, pt), D5>>, <<W_KING, H1>>, <<B_KING, H8>>},
        WHITE, <<>>, -1, -1)
\* the captures on d5 the generator knows
SeeMoves(p) == {m \in LegalSet(p) : move_to(m) = D5 /\ move_type(m) = NORMAL}
\* the same position with another piece standing on d5
Replaced(p, pt) ==
    [p EXCEPT !.board[D5] = make_piece(BLACK, pt),
              !.piecesBB = [t \in DOMAIN p.piecesBB |->
                                IF t = pt THEN p.piecesBB[t] \cup {D5} ELSE p.piecesBB[t] \ {D5}]]

SeePositions ==
    {Position(SeeFen(cfg[1], cfg[2], cfg[3]), FALSE) :
        cfg \in ((SUBSET SeeAttackers) \ {{}}) \X (SUBSET SeeDefenders) \X SeeCaptured}

SeeInit ==
    /\ pos \in SeePositions
    /\ moves = NoMoves
    /\ gen = GenIdle
    /\ ev = [phase |-> "set"]
    /\ table = TableIdle
    /\ history = HistoryCleared
    /\ srch = SearchIdle

\* see(m) before and after the piece on d5 is replaced by one of higher value
SeeReplace ==
    /\ ev.phase = "set"
    /\ \E m \in SeeMoves(pos), pt \in SeeCaptured :
          /\ piece_value(pt) > piece_value(piece_on(pos, D5))
          /\ pos' = Replaced(pos, pt)
          /\ ev' = [phase |-> "replaced", m |-> m, before |-> see(pos, m), after |-> see(Replaced(pos, pt), m)]
    /\ UNCHANGED <<moves, gen, table, history, srch>>

SeeNext == SeeReplace

SpecSee == SeeInit /\ [][SeeNext]_vars

(***************************************************************************)
(* The move list of `position ... moves` (Uci::parse_position, to_move,    *)
(* from_move).  A string is the sequence of its characters.                *)
(***************************************************************************)
FileChars == <<"a", "b", "c", "d", "e", "f", "g", "h">>
RankChars == <<"1", "2", "3", "4", "5", "6", "7", "8">>
UpperChars == <<"A", "B", "C", "D", "E", "F", "G", "H", "N", "R", "Q">>
LowerChars == <<"a", "b", "c", "d", "e", "f", "g", "h", "n", "r", "q">>
\* std::tolower(pieceChar[pt]) for the promotion pieces
PromotionChar(pt) ==
    CASE pt = KNIGHT -> "n" [] pt = BISHOP -> "b" [] pt = ROOK -> "r" [] OTHER -> "q"
square(s) == <<FileChars[file_of(s) + 1], RankChars[rank_of(s) + 1]>>

from_move(m, isChess960) ==
    square(move_from(m))
    \o square(IF move_type(m) = CASTLING /\ ~isChess960
              THEN make_square(rank_of(move_from(m)), IF move_to(m) > move_from(m) THEN 6 ELSE 2)
              ELSE move_to(m))
    \o (IF move_type(m) = PROMOTION THEN <<PromotionChar(move_promotion(m))>> ELSE <<>>)

to_lower(str) ==
    [i \in DOMAIN str |->
        IF \E k \in DOMAIN UpperChars : UpperChars[k] = str[i]
        THEN LowerChars[CHOOSE k \in DOMAIN UpperChars : UpperChars[k] = str[i]]
        ELSE str[i]]

\* Uci::to_move: the first legal move whose string is the lowered token
RECURSIVE FirstMatch(_, _, _, _)
FirstMatch(list, str, isChess960, i) ==
    IF i > Len(list) THEN MoveNone
    ELSE IF str = from_move(list[i], isChess960) THEN list[i]
    ELSE FirstMatch(list, str, isChess960, i + 1)
to_move(p, str) == FirstMatch(LegalList(p), to_lower(str), p.isChess960, 1)

\* the loop over movesVector in Uci::parse_position: short tokens are passed
\* over (continue), the first token to_move does not know ends the loop
\* (return), every other move is made
RECURSIVE ApplyMoves(_, _, _)
ApplyMoves(p, movesVector, i) ==
    IF i > Len(movesVector) THEN p
    ELSE IF Len(movesVector[i]) < 4 THEN ApplyMoves(p, movesVector, i + 1)
    ELSE IF to_move(p, movesVector[i]) = MoveNone THEN p
    ELSE ApplyMoves(do_move(p, to_move(p, movesVector[i])), movesVector, i + 1)

MaxTokens == 3
\* a1b1, e2e4 and h8g8 are moves of the game, E2E3 one in capitals; e2e5 is
\* no move, e2 is too short, and the empty token is what split() leaves
\* between two blanks
Tokens ==
    {<<"a", "1", "b", "1">>, <<"e", "2", "e", "4">>, <<"h", "8", "g", "8">>, <<"E", "2", "E", "3">>,
     <<"e", "2", "e", "5">>, <<"e", "2">>, <<>>}
MoveLists == UNION {[1..n -> Tokens] : n \in 1..MaxTokens}

ParseInit ==
    /\ pos = Position(FenKings, FALSE)
    /\ moves = NoMoves
    /\ gen = GenIdle
    /\ ev = EvIdle
    /\ table = TableIdle
    /\ history = HistoryCleared
    /\ srch \in [phase : {"read"}, movesVector : MoveLists]

\* Uci::parse_position from the split of the move list on
ParseMoves ==
    /\ srch.phase = "read"
    /\ pos' = ApplyMoves(pos, srch.movesVector, 1)
    /\ srch' = [phase |-> "parsed", movesVector |-> srch.movesVector, before |-> pos]
    /\ UNCHANGED <<moves, gen, ev, table, history>>

ParseNext == ParseMoves

SpecParse == ParseInit /\ [][ParseNext]_vars

(***************************************************************************)
(* search.cpp, Search::alphabeta outside a singular-exclusion search       *)
(* (sd->extMove is Move::none()): the move loop and the branch taken when  *)
(* the loop ends with legalMoves == 0.  srch holds legalMoves and what the *)
(* node returned.                                                          *)
(***************************************************************************)
\* 7K/p4k2/8/8/8/8/8/8 w - - 0 1: white has the single move Kh8-h7
FenSingleMove ==
    Fen({<<W_KING, At(8, 8)>>, <<B_KING, At(6, 7)>>, <<B_PAWN, At(1, 7)>>},
        WHITE, <<>>, -1, -1)

\* 7k/5Q2/6K1/8/8/8/8/8 b - - 0 1: black is stalemated
FenStalemate ==
    Fen({<<B_KING, At(8, 8)>>, <<make_piece(WHITE, QUEEN), At(6, 7)>>, <<W_KING, At(7, 6)>>},
        BLACK, <<>>, -1, -1)

\* 7k/6Q1/6K1/8/8/8/8/8 b - - 0 1: black is mated
FenMate ==
    Fen({<<B_KING, At(8, 8)>>, <<make_piece(WHITE, QUEEN), At(7, 7)>>, <<W_KING, At(7, 6)>>},
        BLACK, <<>>, -1, -1)

NodePositions ==
    {Position(FenSingleMove, FALSE), Position(FenStalemate, FALSE), Position(FenMate, FALSE),
     Position(FenCheck, FALSE), Position(FenPawns, FALSE), Position(FenCastle, FALSE)}

\* the killers sibling nodes of the same ply have filed: moves that were quiet
\* where they were filed and that the piece on their from-square can make
\* here as well
MaxSiblingKillers == 3
SiblingKillers(p) ==
    LET fit == SelectSeq(LegalList(p), LAMBDA m : is_pseudolegal(p, m))
    IN {fit[i] : i \in 1..Min(MaxSiblingKillers, Len(fit))}

\* update_histories in a sibling node: hist->set_killer(us, m, ply)
NodeSetKiller ==
    /\ gen.state = "none"
    /\ \E m \in SiblingKillers(pos) : history' = set_killer(history, pos.sideToMove, m, GenPly)
    /\ UNCHANGED <<pos, moves, gen, ev, table, srch>>

\* int quietPruning = (3 + depth * depth) / (2 - improving)
quietPruning(depth, improving) == (3 + depth * depth) \div (2 - (IF improving THEN 1 ELSE 0))

MaxNodeDepth == 1

NodeInit ==
    /\ pos \in NodePositions
    /\ moves = NoMoves
    /\ gen = GenIdle
    /\ ev = EvIdle
    /\ table = TableIdle
    /\ history = HistoryCleared
    /\ \E depth \in 1..MaxNodeDepth, improving \in BOOLEAN :
          srch = [legalMoves |-> 0, moveCnt |-> 0, ret |-> "none",
                  quietPruning |-> quietPruning(depth, improving)]

\* one pass of  while ((m = gen.next()) != Move::none()):  an illegal move is
\* passed over; a legal one is counted (moveCnt++), then searched and counted
\* again (legalMoves++), unless the move pruning, which asks for
\* legalMoves != 0, passes over it
LoopPass(s, p, m, pruned) ==
    IF ~is_legal(p, m) THEN s
    ELSE IF pruned /\ s.legalMoves # 0 THEN [s EXCEPT !.moveCnt = @ + 1]
    ELSE [s EXCEPT !.moveCnt = @ + 1, !.legalMoves = @ + 1]

\* if (legalMoves == 0) return ... inCheck ? mated_in(sd->ply) : VALUE_DRAW;
LoopEnd(s, p) ==
    [s EXCEPT !.ret = IF s.legalMoves = 0
                      THEN IF checks(p) # {} THEN "mated" ELSE "draw"
                      ELSE "best"]

AlphabetaMove ==
    /\ gen.state = "active"
    /\ gen' = Yielded(gen, next(gen.g, pos, history))
    /\ \E pruned \in BOOLEAN :
          srch' = IF gen'.state = "done" THEN LoopEnd(srch, pos)
                  ELSE LoopPass(srch, pos, gen'.yielded[Len(gen'.yielded)], pruned)
    /\ UNCHANGED <<pos, moves, ev, table, history>>

\* if (moveCnt >= quietPruning) gen.skip_quiets(), inside the move pruning
\* of the move handed out last
AlphabetaSkipQuiets ==
    /\ gen.state = "active"
    /\ srch.legalMoves # 0
    /\ srch.moveCnt >= srch.quietPruning
    /\ ~gen.g.skipQuiets
    /\ gen' = [gen EXCEPT !.g = skip_quiets(@)]
    /\ UNCHANGED <<pos, moves, ev, table, history, srch>>

\* if (score >= beta) break, after a move was searched
AlphabetaCutoff ==
    /\ gen.state = "active"
    /\ srch.legalMoves # 0
    /\ gen' = [gen EXCEPT !.state = "done"]
    /\ srch' = LoopEnd(srch, pos)
    /\ UNCHANGED <<pos, moves, ev, table, history>>

NodeNext == NodeSetKiller \/ NewGeneratorSearch \/ AlphabetaMove \/ AlphabetaSkipQuiets \/ AlphabetaCutoff

SpecNode == NodeInit /\ [][NodeNext]_vars

(***************************************************************************)
(* search.cpp, Search::qsearch with the side to move in check: the         *)
(* generator is built in QSEARCH_CHECK mode and drained by the move loop.  *)
(***************************************************************************)
\* 3rk3/8/8/8/8/8/3p4/3QK3 w - - 0 1: the pawn on d2 gives check and is
\* guarded by the rook, so Qxd2 loses the queen for a pawn
FenPawnCheck ==
    Fen({<<B_ROOK, At(4, 8)>>, <<B_KING, E8>>, <<B_PAWN, At(4, 2)>>,
         <<make_piece(WHITE, QUEEN), At(4, 1)>>, <<W_KING, E1>>},
        WHITE, <<>>, -1, -1)

\* 4k3/8/8/8/8/3n4/2P5/4K3 w - - 0 1: the knight on d3 gives check and can
\* be taken by the pawn
FenKnightCheck ==
    Fen({<<B_KING, E8>>, <<B_KNIGHT, At(4, 3)>>, <<W_PAWN, At(3, 2)>>, <<W_KING, E1>>},
        WHITE, <<>>, -1, -1)

CheckPositions ==
    {Position(FenCheck, FALSE), Position(FenPawnCheck, FALSE), Position(FenKnightCheck, FALSE)}

EvadeInit ==
    /\ pos \in CheckPositions
    /\ moves = NoMoves
    /\ gen = GenIdle
    /\ ev = EvIdle
    /\ table = TableIdle
    /\ history = HistoryCleared
    /\ srch = SearchIdle

EvadeNext == SetKiller \/ NewGeneratorQsearch \/ GenNext

SpecEvade == EvadeInit /\ [][EvadeNext]_vars

(***************************************************************************)
(* search.cpp: the accesses to Search::rootMoves.  Every thread runs       *)
(* Search::search on the same Search object; an access to a RootMove is    *)
(* begun in one step and finished in another, so that two threads can be   *)
(* inside accesses to the same element.  srch.pc[id] is the thread's place *)
(* and srch.at[id] the element of rootMoves it is at.                      *)
(***************************************************************************)
VALUE_INFINITE == 32001
MaxRootThreads == 2
MaxRootTries == 2
RootScores == {0, 30}

\* RootMove(Move move)
RootMove(m) ==
    [m |-> m, averageScore |-> -VALUE_INFINITE, previousScore |-> -VALUE_INFINITE,
     currentScore |-> -VALUE_INFINITE]

\* std::find(rootMoves.begin(), rootMoves.end(), m), for a move of the list
RootFind(rootMoves, m) == CHOOSE i \in 1..Len(rootMoves) : rootMoves[i].m = m

NoAccess == [kind |-> "none", idx |-> 0]

RootThreads(num) ==
    [threadCount |-> num,
     pc |-> [i \in 0..(num - 1) |-> IF i = 0 THEN "start" ELSE "none"],
     at |-> [i \in 0..(num - 1) |-> 0],
     tries |-> [i \in 0..(num - 1) |-> 0],
     bestMove |-> [i \in 0..(num - 1) |-> MoveNone],
     access |-> [i \in 0..(num - 1) |-> NoAccess],
     rootMoves |-> <<>>, threads |-> <<>>, dispatched |-> FALSE, writes |-> {}]

\* a write to rootMoves by thread id is begun
BeginWrite(s, id, idx) ==
    [s EXCEPT !.access[id] = [kind |-> "write", idx |-> idx],
              !.writes = @ \cup {[id |-> id, dispatched |-> s.dispatched]}]

RootInit ==
    /\ pos = Position(FenCheck, FALSE)
    /\ moves = NoMoves
    /\ gen = GenIdle
    /\ ev = EvIdle
    /\ table = TableIdle
    /\ history = HistoryCleared
    /\ \E num \in 1..MaxRootThreads : srch = RootThreads(num)

\* main thread: rootMoves.clear(); rootMoves.emplace_back(RootMove(m)) for
\* every legal move
RootStore ==
    /\ srch.pc[0] = "start"
    /\ srch' = [srch EXCEPT !.rootMoves = [i \in 1..Len(LegalList(pos)) |-> RootMove(LegalList(pos)[i])],
                            !.writes = @ \cup {[id |-> 0, dispatched |-> srch.dispatched]},
                            !.pc[0] = "spawn"]
    /\ UNCHANGED <<pos, moves, gen, ev, table, history>>

\* threads.emplace_back(&Search::search, this, pos, manager, i)
RootSpawn ==
    /\ srch.pc[0] = "spawn"
    /\ Len(srch.threads) < srch.threadCount - 1
    /\ srch' = [srch EXCEPT !.threads = Append(@, Len(@) + 1), !.dispatched = TRUE,
                            !.pc[Len(srch.threads) + 1] = "while"]
    /\ UNCHANGED <<pos, moves, gen, ev, table, history>>

\* the loop that starts the helpers is left
RootDispatched ==
    /\ srch.pc[0] = "spawn"
    /\ Len(srch.threads) = srch.threadCount - 1
    /\ srch' = [srch EXCEPT !.dispatched = TRUE, !.pc[0] = "while"]
    /\ UNCHANGED <<pos, moves, gen, ev, table, history>>

\* while (tm->can_continue()), and the test of sd->bestMove before std::find
RootWhile(id) ==
    /\ srch.pc[id] = "while"
    /\ \E cc \in BOOLEAN :
          srch' = IF ~cc \/ srch.tries[id] >= MaxRootTries
                  THEN [srch EXCEPT !.pc[id] = "exit"]
                  ELSE IF srch.bestMove[id] # MoveNone
                  THEN [srch EXCEPT !.pc[id] = "find", !.tries[id] = @ + 1,
                                    !.access[id] = [kind |-> "read",
                                                    idx |-> RootFind(srch.rootMoves, srch.bestMove[id])]]
                  ELSE [srch EXCEPT !.pc[id] = "alphabeta", !.at[id] = 1, !.tries[id] = @ + 1]
    /\ UNCHANGED <<pos, moves, gen, ev, table, history>>

\* average = rm.averageScore has been read
RootFound(id) ==
    /\ srch.pc[id] = "find"
    /\ srch' = [srch EXCEPT !.pc[id] = "alphabeta", !.at[id] = 1, !.access[id] = NoAccess]
    /\ UNCHANGED <<pos, moves, gen, ev, table, history>>

\* alphabeta at the root: the next root move has been searched; the search
\* is left when it was stopped, otherwise RootMove& rm is found and written
RootSearched(id) ==
    /\ srch.pc[id] = "alphabeta"
    /\ \E stopped \in BOOLEAN :
          srch' = IF stopped \/ srch.at[id] > Len(srch.rootMoves)
                  THEN [srch EXCEPT !.pc[id] = "previous", !.at[id] = 1]
                  ELSE [BeginWrite(srch, id, srch.at[id]) EXCEPT !.pc[id] = "update"]
    /\ UNCHANGED <<pos, moves, gen, ev, table, history>>

\* rm.averageScore = ...; rm.currentScore = score; and the best move
RootAverage(rm, score) ==
    [rm EXCEPT !.averageScore = IF rm.averageScore # -VALUE_INFINITE
                                THEN TruncDiv(2 * score + rm.averageScore, 3) ELSE score,
               !.currentScore = score]

RootUpdate(id) ==
    /\ srch.pc[id] = "update"
    /\ \E score \in RootScores, best \in BOOLEAN :
          srch' = [srch EXCEPT !.rootMoves[srch.at[id]] = RootAverage(@, score),
                               !.bestMove[id] = IF best \/ @ = MoveNone
                                                THEN srch.rootMoves[srch.at[id]].m ELSE @,
                               !.access[id] = NoAccess,
                               !.at[id] = @ + 1,
                               !.pc[id] = "alphabeta"]
    /\ UNCHANGED <<pos, moves, gen, ev, table, history>>

\* for (RootMove& rm : rootMoves): the next element is reached
RootPrevious(id) ==
    /\ srch.pc[id] = "previous"
    /\ srch' = IF srch.at[id] > Len(srch.rootMoves)
               THEN [srch EXCEPT !.pc[id] = "while"]
               ELSE [BeginWrite(srch, id, srch.at[id]) EXCEPT !.pc[id] = "copy"]
    /\ UNCHANGED <<pos, moves, gen, ev, table, history>>

\* rm.previousScore = rm.currentScore
RootCopy(id) ==
    /\ srch.pc[id] = "copy"
    /\ srch' = [srch EXCEPT !.rootMoves[srch.at[id]].previousScore =
                                srch.rootMoves[srch.at[id]].currentScore,
                            !.access[id] = NoAccess,
                            !.at[id] = @ + 1,
                            !.pc[id] = "previous"]
    /\ UNCHANGED <<pos, moves, gen, ev, table, history>>

\* a helper returns; the main thread joins the helpers and returns
RootReturn(id) ==
    /\ srch.pc[id] = "exit"
    /\ id = 0 => \A h \in Range(srch.threads) : srch.pc[h] = "done"
    /\ srch' = [srch EXCEPT !.pc[id] = "done"]
    /\ UNCHANGED <<pos, moves, gen, ev, table, history>>

RootThread(id) ==
    \/ RootWhile(id) \/ RootFound(id) \/ RootSearched(id) \/ RootUpdate(id)
    \/ RootPrevious(id) \/ RootCopy(id) \/ RootReturn(id)

RootNext ==
    \/ RootStore \/ RootSpawn \/ RootDispatched
    \/ \E id \in 0..(srch.threadCount - 1) : RootThread(id)

SpecRoot == RootInit /\ [][RootNext]_vars

(***************************************************************************)
(* Position::is_legal asked about a castling move, in every first-rank     *)
(* arrangement of a king between two rooks with both rights, with a black  *)
(* rook on the eighth rank (or none) bearing on a first-rank square.       *)
(***************************************************************************)
KingFiles == 1..6
AttackerFiles == 0..6

\* king on file k, rooks on files qr < k < kr, black king h6, black rook on
\* file f of the eighth rank (f = -1: no rook)
FirstRankFen(k, qr, kr, f) ==
    Fen({<<W_KING, make_square(RANK_1, k)>>, <<W_ROOK, make_square(RANK_1, qr)>>,
         <<W_ROOK, make_square(RANK_1, kr)>>, <<B_KING, make_square(RANK_6, 7)>>}
        \cup (IF f < 0 THEN {} ELSE {<<B_ROOK, make_square(RANK_8, f)>>}),
        WHITE, <<CastleFile(WHITE, kr), CastleFile(WHITE, qr)>>, -1, -1)

CastleShapes ==
    {t \in KingFiles \X (0..5) \X (2..7) \X (AttackerFiles \cup {-1}) : t[2] < t[1] /\ t[1] < t[3]}

CastlePositions == {Position(FirstRankFen(t[1], t[2], t[3], t[4]), TRUE) : t \in CastleShapes}

\* the castling moves generate<QUIETS> builds: king takes own rook
CastlingMoves(p) ==
    {MakeMove(ksq(p, p.sideToMove), castle_rook_square(p, right), CASTLING, KNIGHT) :
        right \in {r \in ColorRights(p.sideToMove, ANY_CASTLE) :
                      can_castle(p, {r}) /\ ~castling_blocked(p, r)}}

\* the loop  for (s = from + d; s != kingTo + d; s += d)  of is_legal runs
\* off the board with no attacked square met: attackers() is then asked
\* about squares that do not exist, and the loop's end is never reached
CastleLoopLeavesBoard(p, m) ==
    LET from == move_from(m)
        to == move_to(m)
        d == IF from < to THEN EAST ELSE WEST
        kingTo == IF to > from THEN relative_square(p.sideToMove, G1)
                  ELSE relative_square(p.sideToMove, C1)
        walk == CastleWalk(from + d, d, kingTo + d)
    IN /\ checks(p) = {}
       /\ \E i \in 1..Len(walk) : walk[i] = SQ_NONE
       /\ \A i \in 1..Len(walk) :
             walk[i] # SQ_NONE =>
                attackers(p, walk[i], pieces_all(p)) \cap pieces_c(p, Not(p.sideToMove)) = {}

\* what a call of is_legal(m) can do: return true, return false, or, past
\* the board's edge, return false on what it reads there or not return
IsLegalOutcomes(p, m) ==
    IF CastleLoopLeavesBoard(p, m) THEN {"false", "none"}
    ELSE IF is_legal(p, m) THEN {"true"} ELSE {"false"}

CastleInit ==
    /\ pos \in CastlePositions
    /\ moves = NoMoves
    /\ gen = GenIdle
    /\ ev = [phase |-> "ask"]
    /\ table = TableIdle
    /\ history = HistoryCleared
    /\ srch = SearchIdle

\* add_move<LEGAL>: if (pos->is_legal(m))
CastleIsLegal ==
    /\ ev.phase = "ask"
    /\ \E m \in CastlingMoves(pos) :
          \E r \in IsLegalOutcomes(pos, m) :
             ev' = [phase |-> "answered", m |-> m, result |-> r]
    /\ UNCHANGED <<pos, moves, gen, table, history, srch>>

\* the next move of the list is asked about
CastleAgain ==
    /\ ev.phase = "answered"
    /\ ev.result # "none"
    /\ ev' = [phase |-> "ask"]
    /\ UNCHANGED <<pos, moves, gen, table, history, srch>>

CastleNext == CastleIsLegal \/ CastleAgain

SpecCastle == CastleInit /\ [][CastleNext]_vars

(***************************************************************************)
(* The generator built for a side in check: generate_mask() narrows the    *)
(* mask, generate<CAPTURES>, generate<QUIETS> and generate<EVASIONS> fill  *)
(* the capture and quiet lists as next() walks its stages.                 *)
(***************************************************************************)
\* 4k3/8/8/3Pp3/3K4/5N2/8/8 w - e6 0 1: the pawn that just went e7-e5 gives
\* check
FenPawnGivesCheck ==
    Fen({<<B_KING, E8>>, <<W_PAWN, At(4, 5)>>, <<B_PAWN, At(5, 5)>>, <<W_KING, At(4, 4)>>,
         <<W_KNIGHT, At(6, 3)>>},
        WHITE, <<>>, 4, RANK_6)

\* 4k3/r5K1/8/3Pp3/8/8/8/8 w - e6 0 1: e7-e5 uncovered the rook's check
FenUncoveredCheck ==
    Fen({<<B_KING, E8>>, <<B_ROOK, At(1, 7)>>, <<W_KING, At(7, 7)>>,
         <<W_PAWN, At(4, 5)>>, <<B_PAWN, At(5, 5)>>},
        WHITE, <<>>, 4, RANK_6)

\* 4k3/8/8/8/8/5n2/6B1/r3K2R w - - 0 1: check by the rook and by the knight
FenDoubleCheck ==
    Fen({<<B_KING, E8>>, <<B_KNIGHT, At(6, 3)>>, <<make_piece(WHITE, BISHOP), At(7, 2)>>,
         <<B_ROOK, A1>>, <<W_KING, E1>>, <<W_ROOK, H1>>},
        WHITE, <<>>, -1, -1)

MaskPositions ==
    CheckPositions \cup
    {Position(FenPawnGivesCheck, FALSE), Position(FenUncoveredCheck, FALSE),
     Position(FenDoubleCheck, FALSE)}

MaskInit ==
    /\ pos \in MaskPositions
    /\ moves = NoMoves
    /\ gen = GenIdle
    /\ ev = EvIdle
    /\ table = TableIdle
    /\ history = HistoryCleared
    /\ srch = SearchIdle

\* alphabeta in check: Generator gen(pos, hist, PV_SEARCH, ttMove, sd->ply)
MaskGeneratorSearch ==
    /\ gen.state = "none"
    /\ \E tt \in {MoveNone} \cup LegalSet(pos) :
          gen' = [state |-> "active", yielded |-> <<>>,
                  g |-> Generator(pos, history, PV_SEARCH, tt, GenPly)]
    /\ UNCHANGED <<pos, moves, ev, table, history, srch>>

MaskNext == MaskGeneratorSearch \/ NewGeneratorQsearch \/ GenNext

SpecMask == MaskInit /\ [][MaskNext]_vars

(***************************************************************************)
(* search.cpp: the calls of alphabeta on one thread's SearchData, as a     *)
(* stack of nodes.  A node descends to a child (do_move, sd->ply++, a      *)
(* shallower alphabeta) or, for its TT move, runs the singular search: the *)
(* same position and ply again with sd->extMove set.  sd->extMove is one   *)
(* field of SearchData, shared by all nodes of the thread.                 *)
(***************************************************************************)
SingularDepth == 8
MaxRootDepth == 9
ExcludedMoves == {NormalMove(E1 + 8, E1 + 24), NormalMove(A1, B1)}

\* a call of alphabeta: singular marks the call made at search.cpp:588
Node(ply, depth, singular) == [ply |-> ply, depth |-> depth, singular |-> singular]

\* the thread's SearchData and call stack before the root call; extPly is
\* the ply of the node that last wrote extMove
ExtInit ==
    /\ pos = EmptyPosition
    /\ moves = NoMoves
    /\ gen = GenIdle
    /\ ev = EvIdle
    /\ table = TableIdle
    /\ history = HistoryCleared
    /\ \E rootDepth \in SingularDepth..MaxRootDepth :
          srch = [stack |-> <<Node(0, rootDepth, FALSE)>>, rootDepth |-> rootDepth,
                  extMove |-> MoveNone, extPly |-> 0]

Top(s) == s.stack[Len(s.stack)]

\* pos->do_move(m); sd->ply++; score = -alphabeta(pos, sd, ..., newDepth or
\* reducedDepth); a depth of zero or less goes to qsearch
ExtDescend ==
    /\ srch.stack # <<>>
    /\ \E reduced \in 0..1 :
          /\ Top(srch).depth - 1 - reduced > 0
          /\ srch' = [srch EXCEPT !.stack = Append(@, Node(Top(srch).ply + 1,
                                                          Top(srch).depth - 1 - reduced, FALSE))]
    /\ UNCHANGED <<pos, moves, gen, ev, table, history>>

\* the singular search of the TT move m: sd->extMove = m; alphabeta(pos, sd,
\* singularBeta - 1, singularBeta, singularDepth)
ExtSingular ==
    /\ srch.stack # <<>>
    /\ Top(srch).ply < srch.rootDepth * 2
    /\ Top(srch).depth >= SingularDepth
    /\ srch.extMove = MoveNone
    /\ Top(srch).ply > 0
    /\ \E m \in ExcludedMoves :
          srch' = [srch EXCEPT !.extMove = m, !.extPly = Top(srch).ply,
                               !.stack = Append(@, Node(Top(srch).ply,
                                                       (Top(srch).depth - 1) \div 2, TRUE))]
    /\ UNCHANGED <<pos, moves, gen, ev, table, history>>

\* a call returns: after a child, undo_move and sd->ply--; after the singular
\* search, sd->extMove = Move::none()
ExtReturn ==
    /\ Len(srch.stack) > 1
    /\ srch' = [srch EXCEPT !.stack = SubSeq(@, 1, Len(@) - 1),
                            !.extMove = IF Top(srch).singular THEN MoveNone ELSE @]
    /\ UNCHANGED <<pos, moves, gen, ev, table, history>>

ExtNext == ExtDescend \/ ExtSingular \/ ExtReturn

SpecExt == ExtInit /\ [][ExtNext]_vars

(***************************************************************************)
(* The perft harness (Perft::main_thread, Perft::worker, Perft::perft).    *)
(* The workers take root moves from the deque under m_perft_mutex and file *)
(* results under m_result_mutex; the consumer loop of main_thread pops the *)
(* results under m_result_mutex.  A section held under one mutex is one    *)
(* step; m_stop and m_num_workers are atomics written outside the locks.   *)
(***************************************************************************)
\* a mutant of the consumer's exit test: the workers are not waited for
ConsumerBreakEarly(s) == s.stop /\ s.perftResults = <<>>

\* if (m_stop.load() && perftResults.empty() && m_num_workers.load() == 0) break
ConsumerBreak(s) == s.stop /\ s.perftResults = <<>> /\ s.numWorkers = 0

RECURSIVE perft(_, _)
RECURSIVE PerftLoop(_, _, _, _)
\* the loop of Perft::perft over the legal moves, from the i-th on
PerftLoop(p, depth, list, i) ==
    IF i > Len(list) THEN 0
    ELSE (IF depth = 2 THEN Len(LegalList(do_move(p, list[i])))
          ELSE perft(do_move(p, list[i]), depth - 1))
         + PerftLoop(p, depth, list, i + 1)

\* Perft::perft(pos, depth)
perft(p, depth) == IF depth <= 0 THEN 1 ELSE PerftLoop(p, depth, LegalList(p), 1)

\* 7K/8/5k2/8/8/8/8/8 w - - 0 1: white has the moves Kg8 and Kh7
FenTwoMoves ==
    Fen({<<W_KING, At(8, 8)>>, <<B_KING, At(6, 6)>>}, WHITE, <<>>, -1, -1)

PerftDepths == {2, 4}
MaxConcurrency == 2
HardwareConcurrency == 2

PerftRoots ==
    <<Position(FenStalemate, FALSE), Position(FenSingleMove, FALSE), Position(FenTwoMoves, FALSE)>>

\* what a worker computes for the i-th root move: newPos.do_move(m);
\* Perft::perft(&newPos, depth - 1)
NodesAfter(p, depth, list) ==
    [i \in 1..Len(list) |-> perft(do_move(p, list[i]), depth - 1)]

\* PerftStats(m, nodes)
PerftStats(m, nodes) == [m |-> m, nodes |-> nodes]

\* main_thread up to the dispatch loop: threadCount, the atomics, rootMoves
PerftStart(p, depth, concurrency, list) ==
    LET maxThreads == IF depth > 3 THEN Max(1, HardwareConcurrency) ELSE 1
        threadCount == Max(1, Min(concurrency, maxThreads))
    IN [threadCount |-> threadCount, depth |-> depth,
        numWorkers |-> 0, stop |-> FALSE,
        rootMoves |-> list, perftResults |-> <<>>,
        roots |-> list, counts |-> NodesAfter(p, depth, list),
        threads |-> 0, counted |-> 0,
        wpc |-> [i \in 1..threadCount |-> "none"],
        wm |-> [i \in 1..threadCount |-> MoveNone],
        wnodes |-> [i \in 1..threadCount |-> 0],
        cpc |-> "dispatch", totalNodes |-> 0,
        taken |-> <<>>, printed |-> <<>>]

PerftInit ==
    /\ pos \in Range(PerftRoots)
    /\ moves = NoMoves
    /\ gen = GenIdle
    /\ ev = EvIdle
    /\ table = TableIdle
    /\ history = HistoryCleared
    /\ \E depth \in PerftDepths, concurrency \in 1..MaxConcurrency :
          srch = PerftStart(pos, depth, concurrency, LegalList(pos))

\* threads.emplace_back(&Perft::worker, this, pos, depth)
PerftDispatch ==
    /\ srch.cpc = "dispatch"
    /\ srch.threads < srch.threadCount
    /\ srch.counted = srch.threads
    /\ srch' = [srch EXCEPT !.threads = @ + 1, !.wpc[srch.threads + 1] = "while"]
    /\ UNCHANGED <<pos, moves, gen, ev, table, history>>

\* m_num_workers.fetch_add(1), and the end of the dispatch loop
PerftCount ==
    /\ srch.cpc = "dispatch"
    /\ srch.counted < srch.threads
    /\ srch' = [srch EXCEPT !.counted = @ + 1, !.numWorkers = @ + 1,
                            !.cpc = IF srch.threads = srch.threadCount THEN "check" ELSE @]
    /\ UNCHANGED <<pos, moves, gen, ev, table, history>>

\* the consumer takes m_result_mutex: it leaves the loop, or pops a result,
\* or finds none and waits on m_perft_one
ConsumerCheck ==
    /\ srch.cpc = "check"
    /\ srch' = IF ConsumerBreak(srch) THEN [srch EXCEPT !.cpc = "join"]
               ELSE IF srch.perftResults = <<>> THEN [srch EXCEPT !.cpc = "wait"]
               ELSE [srch EXCEPT !.perftResults = Tail(@),
                                 !.totalNodes = @ + Head(srch.perftResults).nodes,
                                 !.printed = Append(@, Head(srch.perftResults).m)]
    /\ UNCHANGED <<pos, moves, gen, ev, table, history>>

\* m_perft_one.wait(lock, ...) returns once perftResults is not empty
ConsumerWake ==
    /\ srch.cpc = "wait"
    /\ srch.perftResults # <<>>
    /\ srch' = [srch EXCEPT !.cpc = "check",
                            !.perftResults = Tail(@),
                            !.totalNodes = @ + Head(srch.perftResults).nodes,
                            !.printed = Append(@, Head(srch.perftResults).m)]
    /\ UNCHANGED <<pos, moves, gen, ev, table, history>>

\* for (auto& thread : threads) thread.join(), and the final print
ConsumerJoin ==
    /\ srch.cpc = "join"
    /\ \A i \in 1..srch.threadCount : srch.wpc[i] = "done"
    /\ srch' = [srch EXCEPT !.cpc = "done"]
    /\ UNCHANGED <<pos, moves, gen, ev, table, history>>

\* while (!m_stop.load())
WorkerWhile(i) ==
    /\ srch.wpc[i] = "while"
    /\ srch' = [srch EXCEPT !.wpc[i] = IF srch.stop THEN "stop" ELSE "front"]
    /\ UNCHANGED <<pos, moves, gen, ev, table, history>>

\* under m_perft_mutex: if (rootMoves.empty()) break; m = rootMoves.front();
\* rootMoves.pop_front()
WorkerFront(i) ==
    /\ srch.wpc[i] = "front"
    /\ srch' = IF srch.rootMoves = <<>> THEN [srch EXCEPT !.wpc[i] = "stop"]
               ELSE [srch EXCEPT !.wpc[i] = "perft", !.wm[i] = Head(srch.rootMoves),
                                 !.rootMoves = Tail(@),
                                 !.taken = Append(@, Head(srch.rootMoves))]
    /\ UNCHANGED <<pos, moves, gen, ev, table, history>>

\* newPos.do_move(m); nodes = Perft::perft(&newPos, depth - 1)
WorkerPerft(i) ==
    /\ srch.wpc[i] = "perft"
    /\ srch' = [srch EXCEPT !.wpc[i] = "emplace",
                            !.wnodes[i] = srch.counts[CHOOSE k \in 1..Len(srch.roots) :
                                                         srch.roots[k] = srch.wm[i]]]
    /\ UNCHANGED <<pos, moves, gen, ev, table, history>>

\* under m_result_mutex: perftResults.emplace_back(PerftStats(m, nodes))
WorkerEmplace(i) ==
    /\ srch.wpc[i] = "emplace"
    /\ srch' = [srch EXCEPT !.wpc[i] = "while",
                            !.perftResults = Append(@, PerftStats(srch.wm[i], srch.wnodes[i]))]
    /\ UNCHANGED <<pos, moves, gen, ev, table, history>>

\* m_stop.store(true)
WorkerStop(i) ==
    /\ srch.wpc[i] = "stop"
    /\ srch' = [srch EXCEPT !.wpc[i] = "sub", !.stop = TRUE]
    /\ UNCHANGED <<pos, moves, gen, ev, table, history>>

\* m_num_workers.fetch_sub(1)
WorkerSub(i) ==
    /\ srch.wpc[i] = "sub"
    /\ srch' = [srch EXCEPT !.wpc[i] = "done", !.numWorkers = @ - 1]
    /\ UNCHANGED <<pos, moves, gen, ev, table, history>>

PerftWorker(i) ==
    \/ WorkerWhile(i) \/ WorkerFront(i) \/ WorkerPerft(i) \/ WorkerEmplace(i)
    \/ WorkerStop(i) \/ WorkerSub(i)

PerftMain == PerftDispatch \/ PerftCount \/ ConsumerCheck \/ ConsumerWake \/ ConsumerJoin

PerftNext == PerftMain \/ \E i \in 1..srch.threadCount : PerftWorker(i)

SpecPerft == PerftInit /\ [][PerftNext]_vars

\* every started thread runs: the scheduler of the operating system
SpecPerftFair ==
    /\ PerftInit /\ [][PerftNext]_vars
    /\ WF_vars(PerftMain)
    /\ \A i \in 1..MaxConcurrency : WF_vars(i <= srch.threadCount /\ PerftWorker(i))

(***************************************************************************)
(* One generator instance drained by next(), with the killers sibling      *)
(* nodes filed: a killer is a move that was quiet in the sibling, and the  *)
(* same encoding may take a piece in the position at hand.                 *)
(***************************************************************************)
\* 4k3/8/8/8/8/8/3n4/4K3 w - - 0 1: the king can take the knight d2
FenKingTakes ==
    Fen({<<B_KING, At(5, 8)>>, <<B_KNIGHT, At(4, 2)>>, <<W_KING, At(5, 1)>>},
        WHITE, <<>>, -1, -1)

RepeatPositions ==
    {Position(FenKingTakes, FALSE), Position(FenPawns, FALSE), Position(FenCheck, FALSE)}

RepeatInit ==
    /\ pos \in RepeatPositions
    /\ moves = NoMoves
    /\ gen = GenIdle
    /\ ev = EvIdle
    /\ table = TableIdle
    /\ history = HistoryCleared
    /\ srch = SearchIdle

RepeatNext == NodeSetKiller \/ NewGeneratorSearch \/ NewGeneratorQsearch \/ GenNext \/ SkipQuiets

SpecRepeat == RepeatInit /\ [][RepeatNext]_vars

(***************************************************************************)
(* search.cpp, Search::alphabeta: the scores of the moves of one node and  *)
(* what the node stores in the transposition table.  The score a child     *)
(* search returns is an input; sd->extMove is none (the node stores).      *)
(***************************************************************************)
BoundScores == -2..2
BoundAlphas == {-1, 0}
MaxWindow == 2
BoundPly == 1
BoundDepth == 1
\* pos->key() of the node
BoundKey == [hi |-> 0, lo |-> 1]

BoundPositions == {Position(FenSingleMove, FALSE), Position(FenTwoMoves, FALSE)}

\* alphabeta<nodeType>(pos, sd, alpha, beta, depth) at the head of its move
\* loop: bestScore = -VALUE_INFINITE, bestMove = Move::none()
BoundNode(p, pvNode, alpha, beta) ==
    [phase |-> "loop", pvNode |-> pvNode, entered |-> <<alpha, beta>>,
     alpha |-> alpha, beta |-> beta,
     bestScore |-> -VALUE_INFINITE, bestMove |-> MoveNone,
     list |-> LegalList(p), legalMoves |-> 0]

BoundInit ==
    /\ pos \in BoundPositions
    /\ moves = NoMoves
    /\ gen = GenIdle
    /\ ev = EvIdle
    /\ table = TTresize(TTNum)
    /\ history = HistoryCleared
    /\ \E pvNode \in BOOLEAN, alpha \in BoundAlphas, width \in 1..MaxWindow :
          /\ pvNode \/ width = 1
          /\ srch = BoundNode(pos, pvNode, alpha, alpha + width)

\* table.save<nodeType>(key, depth, value_to_tt(score, sd->ply), standpat, m, b)
BoundSave(t, s, score, m, b) ==
    save(t, IF s.pvNode THEN PV ELSE NON_PV, BoundKey, BoundDepth,
         value_to_tt(score, BoundPly), 0, m, b)

\* one move of the loop searched with the given score: legalMoves++, then
\* if (score > bestScore) { bestScore = score; bestMove = m;
\*     if (score >= beta) { save BOUND_LOWER; return score; }
\*     else if (score > alpha) alpha = score; }
BoundMove ==
    /\ srch.phase = "loop"
    /\ srch.legalMoves < Len(srch.list)
    /\ \E score \in BoundScores :
          LET m == srch.list[srch.legalMoves + 1]
              s == [srch EXCEPT !.legalMoves = @ + 1]
          IN IF score <= srch.bestScore
             THEN srch' = s /\ table' = table
             ELSE IF score >= srch.beta
             THEN /\ srch' = [s EXCEPT !.bestScore = score, !.bestMove = m, !.phase = "cutoff"]
                  /\ table' = BoundSave(table, srch, score, m, BOUND_LOWER)
             ELSE /\ srch' = [s EXCEPT !.bestScore = score, !.bestMove = m,
                                       !.alpha = IF score > @ THEN score ELSE @]
                  /\ table' = table
    /\ UNCHANGED <<pos, moves, gen, ev, history>>

\* behind the loop with legalMoves > 0: table.save<nodeType>(..., bestMove,
\* (bestMove != Move::none() && pvNode) ? BOUND_EXACT : BOUND_UPPER)
BoundStore ==
    /\ srch.phase = "loop"
    /\ srch.legalMoves = Len(srch.list)
    /\ srch.legalMoves # 0
    /\ srch' = [srch EXCEPT !.phase = "stored"]
    /\ table' = BoundSave(table, srch, srch.bestScore, srch.bestMove,
                          IF srch.bestMove # MoveNone /\ srch.pvNode
                          THEN BOUND_EXACT ELSE BOUND_UPPER)
    /\ UNCHANGED <<pos, moves, gen, ev, history>>

BoundNext == BoundMove \/ BoundStore

SpecBound == BoundInit /\ [][BoundNext]_vars

(***************************************************************************)
(* uci.cpp, Uci::parse_go, and timing.cpp, TimeManager::set_time_limit: a  *)
(* go command with clock parameters.  The command is its sequence of       *)
(* words; a numeral is kept as the number it denotes.  Of the time limit   *)
(* the arguments of the call and the integer part of the computation (the  *)
(* time left) are kept.                                                    *)
(***************************************************************************)
\* 4k3/8/8/8/8/8/8/4K3 b - - 0 1
FenBlackToMove ==
    Fen({<<B_KING, At(5, 8)>>, <<W_KING, At(5, 1)>>}, BLACK, <<>>, -1, -1)

GoPositions == {Position(FenKingTakes, FALSE), Position(FenBlackToMove, FALSE)}

WhiteClocks == {500, 60000}
BlackClocks == {700, 30000}
WhiteIncs == {0, 100}
BlackIncs == {0, 200}
MovesToGo == {0, 40}

\* a word of the command: its text, and for a numeral the number it denotes
Word(text) == [text |-> text, num |-> 0]
Numeral(n) == [text |-> "digits", num |-> n]

\* "go wtime <wt> btime <bt> winc <wi> binc <bi>", with "movestogo <mtg>"
\* appended when mtg is given
GoCommand(wt, bt, wi, bi, mtg) ==
    <<Word("go"), Word("wtime"), Numeral(wt), Word("btime"), Numeral(bt),
      Word("winc"), Numeral(wi), Word("binc"), Numeral(bi)>>
        \o (IF mtg = 0 THEN <<>> ELSE <<Word("movestogo"), Numeral(mtg)>>)

GoCommands ==
    {GoCommand(wt, bt, wi, bi, mtg) :
        wt \in WhiteClocks, bt \in BlackClocks, wi \in WhiteIncs, bi \in BlackIncs, mtg \in MovesToGo}

\* is_number(str): every character is a digit
is_number(w) == w.text \in {"digits", ""}

\* find_val_from_key(str, key): the word behind the first word equal to key
\* that has a successor, or the empty string
find_val_from_key(str, kw) ==
    LET at == {i \in 1..(Len(str) - 1) : str[i] = Word(kw)}
    IN IF at = {} THEN Word("") ELSE str[(CHOOSE i \in at : \A k \in at : i <= k) + 1]

\* get_val_from_key<T>(str, key): the value if it is a number, or 0
get_val_from_key(str, kw) ==
    LET val == find_val_from_key(str, kw)
    IN IF val # Word("") /\ is_number(val) THEN val.num ELSE 0

\* TimeManager::reset(), of the limits kept here
tm_reset == [enabled |-> FALSE, time |-> 0, inc |-> 0, movesLeft |-> 0, ply |-> 0, timeLeft |-> 0]

\* TimeManager::set_time_limit(time, inc, movesLeft, ply) up to timeLeft.
\* overhead * mtg is at most time (mtg = time / 20 below 1000 ms, and at most
\* 50 otherwise), so the unsigned difference does not wrap.
set_time_limit(time, inc, movesLeft, ply) ==
    LET overhead == IF inc # 0 THEN 0 ELSE 10
        clamped == IF movesLeft # 0 THEN Min(movesLeft, 50) ELSE 50
        mtg == IF time < 1000 /\ inc = 0 THEN time \div 20 ELSE clamped
    IN [enabled |-> TRUE, time |-> time, inc |-> inc, movesLeft |-> movesLeft, ply |-> ply,
        timeLeft |-> Max(1, time + inc * mtg - overhead * mtg)]

GoInit ==
    /\ pos \in GoPositions
    /\ moves = NoMoves
    /\ gen = GenIdle
    /\ ev = EvIdle
    /\ table = TableIdle
    /\ history = HistoryCleared
    /\ \E command \in GoCommands : srch = [phase |-> "read", command |-> command, tm |-> tm_reset]

\* Uci::parse_go behind stop(): tm.reset(), the clock keywords, and the
\* start of the search thread
ParseGoClock ==
    /\ srch.phase = "read"
    /\ LET wtime == get_val_from_key(srch.command, "wtime")
           btime == get_val_from_key(srch.command, "btime")
           winc == get_val_from_key(srch.command, "winc")
           binc == get_val_from_key(srch.command, "binc")
           mtg == get_val_from_key(srch.command, "movestogo")
           sideTime == IF pos.sideToMove # 0 THEN wtime ELSE btime
           sideInc == IF pos.sideToMove # 0 THEN winc ELSE binc
       IN srch' = [srch EXCEPT
                     !.phase = "searching",
                     !.tm = IF wtime # 0 \/ btime # 0 \/ winc # 0 \/ binc # 0 \/ mtg # 0
                            THEN set_time_limit(sideTime, sideInc, mtg, pos.moveCount)
                            ELSE tm_reset]
    /\ UNCHANGED <<pos, moves, gen, ev, table, history>>

GoNext == ParseGoClock

SpecGo == GoInit /\ [][GoNext]_vars

(***************************************************************************)
(* tt.cpp, TTtable::save, with the saves the search makes: alphabeta with  *)
(* its best move, qsearch on a stand-pat cutoff with Move::none() and      *)
(* depth 0.  srch.given holds the (key, move) pairs passed to save.        *)
(***************************************************************************)
QsearchDepth == 0
\* two keys of one slot with different low halves, and a key of the other slot
SavedKeys == {[hi |-> 0, lo |-> 1], [hi |-> 0, lo |-> 3], [hi |-> 0, lo |-> 2]}

SavedInit ==
    /\ pos \in {Position(FenCastle, FALSE)}
    /\ moves = NoMoves
    /\ gen = GenIdle
    /\ ev = EvIdle
    /\ table = TTresize(TTNum)
    /\ history = HistoryCleared
    /\ srch = [given |-> {}]

\* alphabeta, and qsearch behind its move loop:
\* table.save<nodeType>(key, depth, score, standpat, bestMove, bound)
SavedSave ==
    /\ \E k \in SavedKeys, depth \in TTDepths, score \in TTScores, m \in TTSavedMoves,
          nb \in TTNodes :
          /\ table' = save(table, nb[1], k, depth, score, 0, m, nb[2])
          /\ srch' = [srch EXCEPT !.given = @ \cup {<<k, m>>}]
    /\ UNCHANGED <<pos, moves, gen, ev, history>>

\* qsearch on a stand-pat cutoff: if (!found) table.save<NON_PV>(key, 0,
\* score, standpat, Move::none(), BOUND_NONE)
SavedStandPat ==
    /\ \E k \in SavedKeys, score \in TTScores :
          /\ ~probe(table, k).found
          /\ table' = save(table, NON_PV, k, QsearchDepth, score, score, MoveNone, BOUND_NONE)
          /\ srch' = [srch EXCEPT !.given = @ \cup {<<k, MoveNone>>}]
    /\ UNCHANGED <<pos, moves, gen, ev, history>>

\* table.new_search() at the start of the next search
SavedNewSearch ==
    /\ table.generation < MaxGeneration
    /\ table' = new_search(table)
    /\ UNCHANGED <<pos, moves, gen, ev, history, srch>>

SavedNext == SavedSave \/ SavedStandPat \/ SavedNewSearch

SpecSaved == SavedInit /\ [][SavedNext]_vars

(***************************************************************************)
(* The rules of chess, stated on the board alone (files, ranks and the     *)
(* pieces standing on the squares), against which the generator is held.   *)
(***************************************************************************)
Sign(v) == IF v > 0 THEN 1 ELSE IF v < 0 THEN -1 ELSE 0
RulesAligned(a, b) ==
    /\ a # b
    /\ \/ file_of(a) = file_of(b) \/ rank_of(a) = rank_of(b)
       \/ Abs(file_of(a) - file_of(b)) = Abs(rank_of(a) - rank_of(b))
RulesDiagonal(a, b) == a # b /\ Abs(file_of(a) - file_of(b)) = Abs(rank_of(a) - rank_of(b))
RulesStraight(a, b) == a # b /\ (file_of(a) = file_of(b) \/ rank_of(a) = rank_of(b))
RulesBetween(a, b) ==
    IF ~RulesAligned(a, b) THEN {}
    ELSE LET df == Sign(file_of(b) - file_of(a))
             dr == Sign(rank_of(b) - rank_of(a))
         IN {make_square(rank_of(a) + k * dr, file_of(a) + k * df) : k \in 1..(distance(a, b) - 1)}
RulesClear(brd, a, b) == \A s \in RulesBetween(a, b) : brd[s] = NO_PIECE

\* does the piece standing on t attack the square s?
RulesAttacks(brd, t, s) ==
    LET pc == brd[t]
        df == Abs(file_of(s) - file_of(t))
        dr == rank_of(s) - rank_of(t)
    IN CASE piece_type(pc) = PAWN -> df = 1 /\ dr = (IF piece_color(pc) = WHITE THEN 1 ELSE -1)
         [] piece_type(pc) = KNIGHT -> {df, Abs(dr)} = {1, 2}
         [] piece_type(pc) = KING -> s # t /\ df <= 1 /\ Abs(dr) <= 1
         [] piece_type(pc) = BISHOP -> RulesDiagonal(t, s) /\ RulesClear(brd, t, s)
         [] piece_type(pc) = ROOK -> RulesStraight(t, s) /\ RulesClear(brd, t, s)
         [] piece_type(pc) = QUEEN -> RulesAligned(t, s) /\ RulesClear(brd, t, s)
         [] OTHER -> FALSE

RulesAttacked(brd, s, by) ==
    \E t \in Squares : brd[t] # NO_PIECE /\ piece_color(brd[t]) = by /\ RulesAttacks(brd, t, s)

RulesKing(brd, c) == CHOOSE s \in Squares : brd[s] = make_piece(c, KING)

RulesCastleKingTo(c, from, to) == make_square(rank_of(from), IF to > from THEN 6 ELSE 2)
RulesCastleRookTo(c, from, to) == make_square(rank_of(from), IF to > from THEN 5 ELSE 3)

\* the board after the move
RulesAfter(brd, m) ==
    LET from == move_from(m)
        to == move_to(m)
        pc == brd[from]
        us == piece_color(pc)
    IN CASE move_type(m) = CASTLING ->
              [s \in Squares |->
                  IF s = RulesCastleKingTo(us, from, to) THEN make_piece(us, KING)
                  ELSE IF s = RulesCastleRookTo(us, from, to) THEN make_piece(us, ROOK)
                  ELSE IF s \in {from, to} THEN NO_PIECE ELSE brd[s]]
         [] move_type(m) = EN_PASSANT ->
              [s \in Squares |->
                  IF s = to THEN pc
                  ELSE IF s = from \/ s = make_square(rank_of(from), file_of(to)) THEN NO_PIECE
                  ELSE brd[s]]
         [] move_type(m) = PROMOTION ->
              [s \in Squares |->
                  IF s = to THEN make_piece(us, move_promotion(m))
                  ELSE IF s = from THEN NO_PIECE ELSE brd[s]]
         [] OTHER ->
              [s \in Squares |-> IF s = to THEN pc ELSE IF s = from THEN NO_PIECE ELSE brd[s]]

\* the moves a piece may make before the safety of its own king is looked at
RulesPieceMoves(p, from) ==
    LET brd == p.board
        pc == brd[from]
        us == piece_color(pc)
        Target(to) == brd[to] = NO_PIECE \/ piece_color(brd[to]) # us
    IN {NormalMove(from, to) : to \in {t \in Squares :
           /\ piece_type(pc) \in KNIGHT..KING
           /\ Target(t)
           /\ RulesAttacks(brd, from, t)}}

RulesPawnMoves(p, from) ==
    LET brd == p.board
        us == piece_color(brd[from])
        dr == IF us = WHITE THEN 1 ELSE -1
        last == IF us = WHITE THEN 7 ELSE 0
        home == IF us = WHITE THEN 1 ELSE 6
        one == make_square(rank_of(from) + dr, file_of(from))
        two == make_square(rank_of(from) + 2 * dr, file_of(from))
        pushes == (IF brd[one] = NO_PIECE THEN {one} ELSE {})
                  \cup (IF rank_of(from) = home /\ brd[one] = NO_PIECE /\ brd[two] = NO_PIECE
                        THEN {two} ELSE {})
        takes == {t \in Squares : /\ RulesAttacks(brd, from, t)
                                  /\ brd[t] # NO_PIECE /\ piece_color(brd[t]) # us}
        passant == {t \in Squares : /\ RulesAttacks(brd, from, t)
                                    /\ t = ep_square(p)
                                    /\ brd[t] = NO_PIECE
                                    /\ brd[make_square(rank_of(from), file_of(t))]
                                         = make_piece(Not(us), PAWN)}
    IN UNION {IF rank_of(t) = last
              THEN {MakeMove(from, t, PROMOTION, pt) : pt \in KNIGHT..QUEEN}
              ELSE {NormalMove(from, t)} : t \in pushes \cup takes}
       \cup {MakeMove(from, t, EN_PASSANT, KNIGHT) : t \in passant}

\* castling under the Chess960 rules, of which the standard ones are a case
RulesCastles(p) ==
    LET brd == p.board
        us == p.sideToMove
        king == RulesKing(brd, us)
        Span(a, b) == {a, b} \cup RulesBetween(a, b)
        Ok(right) ==
            LET rook == p.castleRookSquare[right]
                kingTo == RulesCastleKingTo(us, king, rook)
                rookTo == RulesCastleRookTo(us, king, rook)
            IN /\ right \in current(p).castlingRights
               /\ brd[rook] = make_piece(us, ROOK)
               /\ \A s \in (Span(king, kingTo) \cup Span(rook, rookTo)) \ {king, rook} :
                     brd[s] = NO_PIECE
               /\ \A s \in Span(king, kingTo) : ~RulesAttacked(brd, s, Not(us))
    IN {MakeMove(king, p.castleRookSquare[right], CASTLING, KNIGHT) :
           right \in {r \in ColorRights(us, ANY_CASTLE) : Ok(r)}}

RulesLegal(p) ==
    LET us == p.sideToMove
        own == {s \in Squares : p.board[s] # NO_PIECE /\ piece_color(p.board[s]) = us}
        pseudo == UNION {IF piece_type(p.board[s]) = PAWN THEN RulesPawnMoves(p, s)
                         ELSE RulesPieceMoves(p, s) : s \in own}
                  \cup RulesCastles(p)
    IN {m \in pseudo :
           LET after == RulesAfter(p.board, m)
           IN ~RulesAttacked(after, RulesKing(after, us), Not(us))}

(***************************************************************************)
(* Claims about the position and the legal generator, checked under Spec.  *)
(***************************************************************************)
\* C1: in every position reached and for every move the generator hands out,
\* do_move(m) followed by undo_move(m) gives back exactly the position it
\* started from: board, bitboards, side to move, move count, castling
\* tables and the whole stack of PositionInfo (key, castling rights,
\* en-passant square, fifty-move counter, checkers, blockers, pinners,
\* non-pawn material).
C1_DoUndoRestores == \A m \in Playable(pos) : undo_move(do_move(pos, m), m) = pos

\* a Chess960 start position is back on the board after a castling move was
\* made and taken back, and moves of every kind are still to be tried there
C1_Witness ==
    /\ moves.made = <<>>
    /\ move_type(moves.undone) = CASTLING
    /\ pos.isChess960
    /\ pos \in StartPositions
    /\ \E m \in Playable(pos) : do_move(pos, m).board # pos.board

\* C2: the key do_move maintains incrementally equals the key the
\* constructor computes from scratch for the same position (same pieces,
\* side, castling rights, en-passant square), also after castling.
C2_KeyMatchesScratch == key(pos) = key(Position(fen(pos), pos.isChess960))

\* C3: the moves of the legal (perft) generator are exactly the legal moves
\* of the position under the rules of chess, castling of standard chess and
\* of Chess960 and en passant included.
C3_LegalGeneratorExact == LegalSet(pos) = RulesLegal(pos)

(***************************************************************************)
(* Claims about the staged generator and is_pseudolegal.                   *)
(***************************************************************************)
\* C4: when a PV_SEARCH generator has been run to its end (next() returned
\* Move::none(), quiets never skipped), the moves it yielded, kept only
\* when is_pseudolegal and is_legal both accept them, are exactly the LEGAL
\* set of the position, whatever the TT move and the killers were.
C4_SearchGeneratorYieldsLegalSet ==
    (gen.state = "done" /\ gen.g.mode = PV_SEARCH /\ ~gen.g.skipQuiets) =>
        {m \in Range(gen.yielded) : is_pseudolegal(pos, m) /\ is_legal(pos, m)} = LegalSet(pos)

\* the geometry and occupancy rules of the piece standing on the from-square
RulesGeometry(p, m) ==
    LET from == move_from(m)
        to == move_to(m)
        pc == p.board[from]
    IN /\ pc # NO_PIECE
       /\ IF piece_type(pc) = PAWN
          THEN \E r \in RulesPawnMoves(p, from) :
                  /\ move_to(r) = to
                  /\ (move_type(r) = EN_PASSANT) <=> (move_type(m) = EN_PASSANT)
          ELSE \/ NormalMove(from, to) \in RulesPieceMoves(p, from)
               \/ /\ move_type(m) = CASTLING
                  /\ piece_type(pc) = KING
                  /\ p.board[to] = make_piece(piece_color(pc), ROOK)

MoveValues == 0..65535

\* C5: every 16-bit move value is_pseudolegal accepts obeys the geometry and
\* occupancy rules of the piece on its from-square: a pawn makes a single
\* push onto an empty square, a double push from its starting rank over an
\* empty square onto an empty square or a one-step diagonal capture of an
\* enemy piece; the other pieces land on a square they attack.
C5_PseudolegalImpliesGeometry ==
    \A m \in MoveValues : is_pseudolegal(pos, m) => RulesGeometry(pos, m)

(***************************************************************************)
(* Claims about the transposition table, checked under SpecTT.             *)
(***************************************************************************)
\* C9: after any sequence of save and new_search calls, a probe reports
\* found only if the entry of the slot its key selects stores the low 32
\* bits of that key, and the last save aimed at that slot was made for a
\* key with the same low 32 bits.
C9_ProbeHitMatchesKey ==
    table.probed.found =>
        /\ table.entries[TTslot(table, table.probed.key)].key32 = Low32(table.probed.key)
        /\ Low32(table.lastSave[TTslot(table, table.probed.key)]) = Low32(table.probed.key)

\* a probe missed although its slot is filled: the slot was last written
\* for another key, with other low 32 bits, in a later search
C9_Witness ==
    /\ table.probed.key # NoKey
    /\ ~table.probed.found
    /\ table.probed.entry.key32 # 0
    /\ table.probed.entry.age8 = 1
    /\ Low32(table.lastSave[TTslot(table, table.probed.key)]) # Low32(table.probed.key)

(***************************************************************************)
(* Claims about the history tables, checked under SpecHist.                *)
(***************************************************************************)
\* C10: starting from cleared tables, after any sequence of
\* update_butterfly, update_capture and update_continuation calls with a
\* bonus stat_bonus(d) or a negated malus -stat_malus(d), d >= 1, every
\* counter stays within its bound: 7000 for butterfly, 10000 for capture,
\* 25000 for continuation.
C10_HistoryBounded ==
    /\ \A i \in DOMAIN history.butterflyHistory :
          Abs(history.butterflyHistory[i]) <= ButterflyMax
    /\ \A i \in DOMAIN history.captureHistory :
          Abs(history.captureHistory[i]) <= CaptureMax
    /\ \A i \in DOMAIN history.continuationHistory :
          Abs(history.continuationHistory[i]) <= ContinuationMax

\* a continuation counter has been driven down onto its bound
C10_Witness ==
    \E i \in DOMAIN history.continuationHistory :
        history.continuationHistory[i] = -ContinuationMax

(***************************************************************************)
(* Claims about the threads of a search.                                   *)
(***************************************************************************)
\* C6: when Search::search has returned on the main thread (id 0), every
\* helper thread of that search has been started, has returned and has been
\* joined, and the move returned is the main thread's own sd->bestMove.
C6_MainReturnJoinsHelpers ==
    srch.pc[0] = "done" =>
        /\ srch.spawned = srch.threadCount - 1
        /\ srch.joined = srch.spawned
        /\ \A id \in 1..srch.spawned : srch.pc[id] = "done"
        /\ srch.returned = <<srch.threadData[0].bestMove>>

\* the main thread has returned a move with every helper joined, one of
\* which holds another best move
C6_Witness ==
    /\ srch.pc[0] = "done" /\ srch.spawned = MaxThreads - 1
    /\ srch.returned # <<MoveNone>>
    /\ \E id \in 1..srch.spawned : srch.threadData[id].bestMove \notin {MoveNone, srch.returned[1]}

\* every search thread has seen forceStop set or is behind its search loop
AllObserved ==
    \A id \in 0..(srch.threadCount - 1) :
        srch.observed[id] \/ srch.pc[id] \in {"exit", "join", "done"}

\* C7: once stop() has been called after a search was started (be it before
\* a search thread has run its first statement or while helpers are being
\* started), forceStop stays true until every search thread has observed
\* it, and so every thread leaves its loop, Search::search returns on the
\* main thread and the join in Uci::stop returns.
C7_StopReachesEveryThread ==
    /\ [](srch.stopCalled => (srch.forceStop \/ AllObserved))
    /\ (srch.stopCalled ~>
            (srch.ui = "stopped" /\ \A id \in 0..(srch.threadCount - 1) : srch.pc[id] = "done"))

\* C8: in every position reached from an evaluator reset on the start
\* position by making legal moves and taking them back, the accumulators of
\* both perspectives at the current ply are those a full reset of the
\* position produces: propagate(P.side) is predict(P).
C8_IncrementalEqualsReset == propagate(ev, pos.sideToMove) = predict(ev, pos)

\* the round trip of C11 as it stands: v + p - p' for a mate in favour of the
\* side to move, v - p + p' for a mate against it
RoundTrip(t) == IF t.v > 0 THEN t.v + t.ply - t.ply2 ELSE t.v - t.ply + t.ply2

\* C11 (as stated): for every mate score v, stored at ply p and loaded at ply
\* p' with the fifty-move counter at 0, value_from_tt(value_to_tt(v, p), p', 0)
\* is the equivalent mate for the new distance.
C11_MateRoundTrip == table.phase = "loaded" => table.loaded = RoundTrip(table)

\* C11 (amended): the round trip recovers the equivalent mate when the stored
\* score is a mate of at most a hundred plies that is no more than
\* VALUE_MATE in size; a stored mate of more than a hundred plies is loaded
\* as VALUE_WIN_MAX_PLY - 1 (VALUE_LOSS_MAX_PLY + 1 for a mate against the
\* side to move), whatever the ply.
C11_MateRoundTripWithinHundred ==
    table.phase = "loaded" =>
        /\ (Abs(table.stored) <= VALUE_MATE /\ VALUE_MATE - Abs(table.stored) <= FiftyLimit)
                => table.loaded = RoundTrip(table)
        /\ VALUE_MATE - Abs(table.stored) > FiftyLimit
                => table.loaded = (IF table.v > 0 THEN VALUE_WIN_MAX_PLY - 1 ELSE VALUE_LOSS_MAX_PLY + 1)

\* a mate within a hundred plies has been stored at one ply and loaded at
\* another, and came back as another score
C11_Witness ==
    /\ table.phase = "loaded" /\ table.ply # table.ply2
    /\ VALUE_MATE - Abs(table.stored) <= FiftyLimit /\ Abs(table.stored) <= VALUE_MATE
    /\ table.loaded = RoundTrip(table) /\ table.loaded # table.v

\* the entries of the history stack an even number of plies, at least 4 and
\* at most min(fiftyRule, pliesFromNull), before the current one that hold
\* the key of the current position
Repeated(p) ==
    {d \in 4..Min(current(p).fiftyRule, current(p).pliesFromNull) :
        /\ d % 2 = 0 /\ d < Len(p.positionHistory)
        /\ p.positionHistory[Len(p.positionHistory) - d].key = current(p).key}

\* C12: after every do_move the repetition flag is set, and is_draw returns
\* true, if and only if an earlier entry of the history stack, an even number
\* of plies (at least 4, at most min(fiftyRule, pliesFromNull)) back, has the
\* key of the current position.
C12_RepetitionFlagIffRepeated ==
    (Len(moves.made) > 0 /\ moves.undone = MoveNone) =>
        /\ current(pos).repetition <=> Repeated(pos) # {}
        /\ current(pos).repetition => is_draw(pos)

\* C13: whenever the front-end processes `position`, `go` or `setoption name
\* Hash`, a search that was active has been stopped and its thread joined:
\* none of the three is processed while mainThread runs Search::search.
C13_NoCommandWhileSearching == srch.whileRunning = {}

\* C14: in every position produced by do_move the en-passant square is set
\* only if the move just played was a double pawn push and a pawn of the
\* side now to move stands on an adjacent file beside the pawn pushed, from
\* where it attacks the square passed over.
C14_EpOnlyWhenCapturable ==
    (Len(moves.made) > 0 /\ moves.undone = MoveNone /\ ep_square(pos) # SQ_NONE) =>
        /\ piece_on(pos, move_to(moves.made[Len(moves.made)])) = make_piece(Not(pos.sideToMove), PAWN)
        /\ Abs(move_to(moves.made[Len(moves.made)]) - move_from(moves.made[Len(moves.made)])) = 16
        /\ pawn_attacks(Not(pos.sideToMove), ep_square(pos)) \cap pieces_cpt(pos, pos.sideToMove, PAWN) # {}

\* C15: for a fixed capture m on d5 and fixed attackers and defenders of the
\* square, replacing the captured piece by a piece of higher value never
\* decreases see(m).
C15_SeeMonotone == ev.phase = "replaced" => ev.before <= ev.after

\* the piece on d5 has been replaced under an exchange of at least two
\* attackers and two defenders, and see(m) has grown by more than the
\* difference of the two pieces' values: the exchange itself ends otherwise
C15_Witness ==
    /\ ev.phase = "replaced" /\ ev.before < ev.after
    /\ Cardinality(pieces_c(pos, WHITE)) >= 3 /\ Cardinality(pieces_c(pos, BLACK)) >= 4
    /\ \E pt \in SeeCaptured :
          /\ ev.before = see(Replaced(pos, pt), ev.m)
          /\ piece_value(pt) < piece_value(piece_on(pos, D5))
          /\ ev.after - ev.before > piece_value(piece_on(pos, D5)) - piece_value(pt)

\* the position the claim describes: tokens are applied in order up to the
\* first one that is no legal move of the position reached, a token of fewer
\* than four characters included (the empty string between two blanks is no
\* token)
RECURSIVE StopAtFirstInvalid(_, _, _)
StopAtFirstInvalid(p, toks, i) ==
    IF i > Len(toks) THEN p
    ELSE IF toks[i] = <<>> THEN StopAtFirstInvalid(p, toks, i + 1)
    ELSE IF \E m \in LegalSet(p) : from_move(m, p.isChess960) = to_lower(toks[i])
         THEN StopAtFirstInvalid(
                 do_move(p, CHOOSE m \in LegalSet(p) : from_move(m, p.isChess960) = to_lower(toks[i])),
                 toks, i + 1)
         ELSE p

\* C16: while the move list of `position ... moves` is applied, the first
\* token that is not a legal move of the current position, a token shorter
\* than four characters included, ends processing: the position is the one
\* reached after the last valid move before it.
C16_StopsAtFirstInvalidToken ==
    srch.phase = "parsed" => pos = StopAtFirstInvalid(srch.before, srch.movesVector, 1)

\* C17: outside a singular-exclusion search, alphabeta returns the mate or
\* the draw score of its terminal branch exactly when the side to move has
\* no legal move.
C17_TerminalIffNoLegalMove ==
    srch.ret # "none" => ((srch.ret \in {"mated", "draw"}) <=> (RulesLegal(pos) = {}))

\* C18: in QSEARCH_CHECK mode the calls of next() up to Move::none() yield
\* every legal answer to the check, the captures that lose material
\* included.
C18_EvasionsAllYielded ==
    (gen.state = "done" /\ gen.g.mode = QSEARCH_CHECK)
        => RulesLegal(pos) \subseteq Range(gen.yielded)

\* two threads are inside accesses to the same RootMove, one of them a write
RootRace ==
    \E a, b \in 0..(srch.threadCount - 1) :
        /\ a # b
        /\ srch.access[a].kind = "write"
        /\ srch.access[b].kind # "none"
        /\ srch.access[a].idx = srch.access[b].idx

\* C19: rootMoves is written only by the main thread before the helpers are
\* dispatched, and no RootMove is accessed by two threads at once with one
\* of them writing.
C19_RootMovesReadOnlyAfterDispatch ==
    /\ \A w \in srch.writes : w.id = 0 /\ ~w.dispatched
    /\ ~RootRace

\* the squares the king travels over in castling, its destination included
KingTravel(from, kingTo) == (RulesBetween(from, kingTo) \cup {kingTo}) \ {from}

CastlePathSafe(p, m) ==
    /\ ~RulesAttacked(p.board, move_from(m), Not(p.sideToMove))
    /\ \A s \in KingTravel(move_from(m), RulesCastleKingTo(p.sideToMove, move_from(m), move_to(m))) :
          ~RulesAttacked(p.board, s, Not(p.sideToMove))

\* C20: for a castling move, is_legal returns, and returns true only if the
\* king is not in check and no square on the king's way to the G or C file,
\* the destination included, is attacked by the enemy.
C20_CastlingLegalOnlyIfPathSafe ==
    ev.phase = "answered" =>
        /\ ev.result # "none"
        /\ (ev.result = "true" => CastlePathSafe(pos, ev.m))

\* a quiet move: neither a capture nor a promotion
QuietMove(p, m) == ~is_capture(p, m) /\ ~is_promotion(m)

\* a call of next() on a generator with skipQuiets set hands out a move
HandsAfterSkip ==
    /\ gen.state = "active"
    /\ gen.g.skipQuiets
    /\ gen'.state = "active"
    /\ Len(gen'.yielded) = Len(gen.yielded) + 1

\* C21: once skip_quiets() has been called on a generator, no later call of
\* next() on it returns a quiet move, killers included.
C21_NoQuietAfterSkipQuiets ==
    [][HandsAfterSkip => ~QuietMove(pos, gen'.yielded[Len(gen'.yielded)])]_vars

\* the moves the generator has put on its lists
Produced == Range(gen.g.captures.moves) \cup Range(gen.g.quiets.moves)

KingMove(p, m) == piece_type(piece_on(p, move_from(m))) = KING

\* between(king, checker): the squares between the two and the checker's own
CheckMask(p) ==
    RulesBetween(ksq(p, p.sideToMove), lsb(checks(p))) \cup {lsb(checks(p))}

OnlyKingMovesInDoubleCheck ==
    popcount(checks(pos)) >= 2 => \A m \in Produced : KingMove(pos, m)

C23_ExtMoveClearedBeforeDescent ==
    \A i \in 1..Len(srch.stack) :
        srch.stack[i].ply > srch.extPly => srch.extMove = MoveNone

\* C24: Perft::main_thread always terminates: under every interleaving its
\* consumer loop is left and the workers are joined.
C24_MainThreadTerminates == <>(srch.cpc = "done")

RECURSIVE SumNodes(_, _)
SumNodes(counts, i) == IF i > Len(counts) THEN 0 ELSE counts[i] + SumNodes(counts, i + 1)

\* every element of list occurs exactly once in log, and nothing else does
ExactlyOnce(log, list) ==
    /\ Len(log) = Len(list)
    /\ \A i \in 1..Len(list) : Cardinality({k \in 1..Len(log) : log[k] = list[i]}) = 1

\* C25: when main_thread has left its consumer loop, every root move was
\* taken from the deque by exactly one worker, its result was consumed
\* exactly once, and the total is the sum of the moves' perft(depth - 1).
C25_EveryRootMoveCountedOnce ==
    srch.cpc \in {"join", "done"} =>
        /\ ExactlyOnce(srch.taken, srch.roots)
        /\ ExactlyOnce(srch.printed, srch.roots)
        /\ srch.totalNodes = SumNodes(srch.counts, 1)

\* two workers have shared two root moves, and the consumer has left its loop
C25_Witness ==
    /\ srch.cpc = "done"
    /\ srch.threadCount = 2
    /\ Len(srch.taken) = 2
    /\ srch.wm[1] # MoveNone
    /\ srch.wm[2] # MoveNone
    /\ srch.totalNodes > 2

\* C26: with at least one legal root move, the move Search::search returns
\* on the main thread is one of the legal root moves, also when the search
\* is stopped or timed out before the first root move was searched through.
C26_BestMoveIsRootMove ==
    (srch.returned # <<>> /\ srch.rootMoves # <<>>) =>
        srch.returned[1] \in Range(srch.rootMoves)

\* C27: within one generator instance, in every mode, next() never returns
\* the same move twice.
C27_NextNeverRepeats ==
    gen.state # "none" =>
        \A i, j \in 1..Len(gen.yielded) : gen.yielded[i] = gen.yielded[j] => i = j

\* the entry of the node's key, and the bound kept in its node8
BoundEntry == table.entries[TTslot(table, BoundKey)]
StoredBound == BoundEntry.node8 % 4

\* C28: an entry alphabeta stores with BOUND_EXACT carries a score strictly
\* between the alpha and the beta the node was entered with, and a PV node
\* in which no move raised alpha stores BOUND_UPPER.
C28_ExactInsideWindow ==
    srch.phase = "stored" =>
        /\ StoredBound = BOUND_EXACT =>
              (srch.entered[1] < BoundEntry.score16 /\ BoundEntry.score16 < srch.entered[2])
        /\ (srch.pvNode /\ srch.alpha = srch.entered[1]) => StoredBound = BOUND_UPPER

\* the number behind a keyword of the go command
Clock(kw) == get_val_from_key(srch.command, kw)

\* C29: for a go command with clock parameters the time limit is computed
\* from the clock and the increment of the side to move: wtime and winc
\* with White to move, btime and binc with Black to move.
C29_TimeLimitOfSideToMove ==
    (srch.phase = "searching" /\ srch.tm.enabled) =>
        /\ srch.tm.time = (IF pos.sideToMove = WHITE THEN Clock("wtime") ELSE Clock("btime"))
        /\ srch.tm.inc = (IF pos.sideToMove = WHITE THEN Clock("winc") ELSE Clock("binc"))

\* C30: after any sequence of saves the move stored in an entry is none or
\* a move that was passed to a save for the key the entry holds.
C30_StoredMoveBelongsToKey ==
    \A i \in DOMAIN table.entries :
        LET entry == table.entries[i]
        IN \/ entry.move16 = MoveNone
           \/ \E g \in srch.given : Low32(g[1]) = entry.key32 /\ g[2] = entry.move16

====
